---- MODULE Spec2Model ----
(***************************************************************************)
(* A model of the layers of edward2/tensorflow/layers/convolutional.py,    *)
(* of the subsample scripts and the dataset builder of subsample/, and of  *)
(* the launch scripts main_train.py and train/*.py.                        *)
(*                                                                         *)
(* A tensor is a record [shape, data]: shape is a sequence of dimensions   *)
(* and data maps every index tuple (0-based, one entry per axis) to an     *)
(* integer.  The tensor operators below compute what the TensorFlow calls  *)
(* of the source compute (row-major reshape, broadcasting, convolution     *)
(* with 'valid' padding, unit strides and unit dilation: the defaults of   *)
(* every layer).  Floating point values are modelled by integers.          *)
(*                                                                         *)
(* The state is one layer object, the handler that ran last (op), the      *)
(* arguments it was given (args), what it returned or raised (ret) and the *)
(* values of its local variables when it returned (locals).  The files a   *)
(* script wrote, by name, are in files.                                    *)
(***************************************************************************)
EXTENDS Integers, Sequences, FiniteSets, TLC

VARIABLES layer, op, args, ret, locals, files

vars == <<layer, op, args, ret, locals, files>>

(***************************************************************************)
(* Bounds of the model.                                                    *)
(***************************************************************************)
MaxBatch == 2
MaxExperts == 2
MaxSeed == 2
MaxRank == 5

\* The height of the images fed to the 2D layers; their width is 1.
Height == 3

\* The numbers of input channels, the numbers of filters (or the depth
\* multipliers) and the kernel heights the model tries; kernels have width 1.
ChannelSizes == {1, 2}
FilterSizes == {1, 2}
KernelHeights == {1, 2}

\* An unknown (None) dimension of a shape.
NoneDim == -1

DataFormats == {"channels_first", "channels_last"}
Activations == {"None", "relu"}

(***************************************************************************)
(* Tensors.                                                                *)
(***************************************************************************)
Indices(shape) ==
  CASE Len(shape) = 0 -> {<<>>}
    [] Len(shape) = 1 -> {<<a>> : a \in 0..(shape[1] - 1)}
    [] Len(shape) = 2 -> {<<a, b>> : a \in 0..(shape[1] - 1), b \in 0..(shape[2] - 1)}
    [] Len(shape) = 3 -> {<<a, b, c>> : a \in 0..(shape[1] - 1), b \in 0..(shape[2] - 1),
                                        c \in 0..(shape[3] - 1)}
    [] Len(shape) = 4 -> {<<a, b, c, d>> : a \in 0..(shape[1] - 1), b \in 0..(shape[2] - 1),
                                           c \in 0..(shape[3] - 1), d \in 0..(shape[4] - 1)}
    [] Len(shape) = 5 -> {<<a, b, c, d, e>> : a \in 0..(shape[1] - 1), b \in 0..(shape[2] - 1),
                                              c \in 0..(shape[3] - 1), d \in 0..(shape[4] - 1),
                                              e \in 0..(shape[5] - 1)}

\* F[0] + ... + F[n - 1]
RECURSIVE Sum(_, _)
Sum(n, F) == IF n = 0 THEN 0 ELSE F[n - 1] + Sum(n - 1, F)

RECURSIVE Prod(_)
Prod(shape) == IF shape = <<>> THEN 1 ELSE Head(shape) * Prod(Tail(shape))

\* Row-major position of an index tuple, and its inverse.
RECURSIVE FlatIndex(_, _)
FlatIndex(shape, idx) ==
  IF shape = <<>> THEN 0
  ELSE idx[1] * Prod(Tail(shape)) + FlatIndex(Tail(shape), Tail(idx))

UnflatIndex(shape, n) ==
  [k \in 1..Len(shape) |-> (n \div Prod(SubSeq(shape, k + 1, Len(shape)))) % shape[k]]

\* f itself, as an explicit table: every element is computed once.
Table(f) == f @@ <<>>

Tensor(shape, data) == [shape |-> shape, data |-> Table(data)]

Scalar(v) == Tensor(<<>>, [i \in {<<>>} |-> v])

\* tf.reshape: same row-major sequence of elements under a new shape.
Reshape(t, shape) ==
  Tensor(shape, [i \in Indices(shape) |-> t.data[UnflatIndex(t.shape, FlatIndex(shape, i))]])

\* tf.matmul of two rank-2 tensors.
MatMul(a, b) ==
  LET shape == <<a.shape[1], b.shape[2]>>
  IN Tensor(shape, [i \in Indices(shape) |->
       Sum(a.shape[2], [k \in 0..(a.shape[2] - 1) |-> a.data[<<i[1], k>>] * b.data[<<k, i[2]>>]])])

\* tf.split(t, n, 0): n pieces of equal size along axis 0, in order.
Split(t, n) ==
  LET size == t.shape[1] \div n
      shape == [t.shape EXCEPT ![1] = size]
  IN Table([p \in 1..n |->
       Tensor(shape, [i \in Indices(shape) |->
                        t.data[[i EXCEPT ![1] = (p - 1) * size + i[1]]]])])

\* tf.concat(ts, 0) of a list of tensors that all have one row along axis 0.
Concat(ts) ==
  LET shape == [ts[1].shape EXCEPT ![1] = Len(ts)]
  IN Tensor(shape, [i \in Indices(shape) |-> ts[i[1] + 1].data[[i EXCEPT ![1] = 0]]])

\* tf.squeeze(t, axis=0)
Squeeze(t) ==
  LET shape == Tail(t.shape)
  IN Tensor(shape, [i \in Indices(shape) |-> t.data[<<0>> \o i]])

\* The index of b that broadcasting pairs with index i of the result:
\* axes are aligned from the right and an axis of size 1 is repeated.
BroadcastIndex(shape, i) ==
  LET off == Len(i) - Len(shape)
  IN [k \in 1..Len(shape) |-> IF shape[k] = 1 THEN 0 ELSE i[k + off]]

Max(a, b) == IF a >= b THEN a ELSE b

BroadcastShape(s, t) ==
  LET n == Max(Len(s), Len(t))
      ds(k) == IF k > n - Len(s) THEN s[k - (n - Len(s))] ELSE 1
      dt(k) == IF k > n - Len(t) THEN t[k - (n - Len(t))] ELSE 1
  IN [k \in 1..n |-> Max(ds(k), dt(k))]

\* a * b and a + b with broadcasting.
Mul(a, b) ==
  LET shape == BroadcastShape(a.shape, b.shape)
  IN Tensor(shape, [i \in Indices(shape) |->
       a.data[BroadcastIndex(a.shape, i)] * b.data[BroadcastIndex(b.shape, i)]])

Add(a, b) ==
  LET shape == BroadcastShape(a.shape, b.shape)
  IN Tensor(shape, [i \in Indices(shape) |->
       a.data[BroadcastIndex(a.shape, i)] + b.data[BroadcastIndex(b.shape, i)]])

Sub(a, b) ==
  LET shape == BroadcastShape(a.shape, b.shape)
  IN Tensor(shape, [i \in Indices(shape) |->
       a.data[BroadcastIndex(a.shape, i)] - b.data[BroadcastIndex(b.shape, i)]])

\* Whether two shapes broadcast: aligned from the right, the dimensions of
\* every axis are equal or one of them is 1.
Broadcastable(s, t) ==
  \A k \in 1..(IF Len(s) < Len(t) THEN Len(s) ELSE Len(t)) :
    LET ds == s[Len(s) + 1 - k]
        dt == t[Len(t) + 1 - k]
    IN ds = dt \/ ds = 1 \/ dt = 1

\* tf.tile: axis k of t is repeated multiples[k] times.
Tile(t, multiples) ==
  LET shape == [k \in 1..Len(t.shape) |-> t.shape[k] * multiples[k]]
  IN Tensor(shape, [i \in Indices(shape) |->
                      t.data[[k \in 1..Len(shape) |-> i[k] % t.shape[k]]]])

\* tf.transpose: axis k of the result is axis perm[k] (0-based) of t.
Transpose(t, perm) ==
  LET shape == [k \in 1..Len(t.shape) |-> t.shape[perm[k] + 1]]
      inv(a) == CHOOSE k \in 1..Len(perm) : perm[k] + 1 = a
  IN Tensor(shape, [i \in Indices(shape) |->
                      t.data[[a \in 1..Len(shape) |-> i[inv(a)]]]])

\* tf.expand_dims: a new axis of size 1 at position axis (0-based), or at
\* the end for axis = -1.
ExpandDims(t, axis) ==
  LET pos == IF axis < 0 THEN Len(t.shape) + 1 + axis ELSE axis
      shape == SubSeq(t.shape, 1, pos) \o <<1>> \o SubSeq(t.shape, pos + 1, Len(t.shape))
  IN Tensor(shape, [i \in Indices(shape) |->
                      t.data[SubSeq(i, 1, pos) \o SubSeq(i, pos + 2, Len(i))]])

\* tf.reduce_sum(t, axis=0)
ReduceSum(t) ==
  LET shape == Tail(t.shape)
  IN Tensor(shape, [i \in Indices(shape) |->
                      Sum(t.shape[1], [r \in 0..(t.shape[1] - 1) |-> t.data[<<r>> \o i]])])

\* The axis that holds the channels of a rank-r input.
ChannelAxis(data_format, r) == IF data_format = "channels_first" THEN 2 ELSE r

\* The first spatial axis of an input.
SpatialAxis(data_format) == IF data_format = "channels_first" THEN 3 ELSE 2

\* tf.nn.convolution for 2D inputs (NHWC or NCHW) and a kernel of shape
\* [kh, kw, in, out]; 'VALID' padding, strides 1, dilations 1.
Convolution(x, kernel, data_format) ==
  LET ca == ChannelAxis(data_format, 4)
      sa == SpatialAxis(data_format)
      kh == kernel.shape[1]
      kw == kernel.shape[2]
      cin == kernel.shape[3]
      shape == [[[x.shape EXCEPT ![ca] = kernel.shape[4]]
                          EXCEPT ![sa] = x.shape[sa] - kh + 1]
                          EXCEPT ![sa + 1] = x.shape[sa + 1] - kw + 1]
      At(i, dh, dw, c) == x.data[[[[i EXCEPT ![ca] = c]
                                      EXCEPT ![sa] = i[sa] + dh]
                                      EXCEPT ![sa + 1] = i[sa + 1] + dw]]
  IN Tensor(shape, [i \in Indices(shape) |->
       Sum(kh, [dh \in 0..(kh - 1) |-> Sum(kw, [dw \in 0..(kw - 1) |->
         Sum(cin, [c \in 0..(cin - 1) |->
           At(i, dh, dw, c) * kernel.data[<<dh, dw, c, i[ca]>>]])])])])

\* tf.nn.convolution for 1D inputs (NWC or NCW) and a kernel of shape
\* [kw, in, out]; 'VALID' padding, stride 1, dilation 1.
Convolution1D(x, kernel, data_format) ==
  LET ca == ChannelAxis(data_format, 3)
      sa == SpatialAxis(data_format)
      kw == kernel.shape[1]
      cin == kernel.shape[2]
      shape == [[x.shape EXCEPT ![ca] = kernel.shape[3]]
                         EXCEPT ![sa] = x.shape[sa] - kw + 1]
      At(i, dw, c) == x.data[[[i EXCEPT ![ca] = c] EXCEPT ![sa] = i[sa] + dw]]
  IN Tensor(shape, [i \in Indices(shape) |->
       Sum(kw, [dw \in 0..(kw - 1) |-> Sum(cin, [c \in 0..(cin - 1) |->
         At(i, dw, c) * kernel.data[<<dw, c, i[ca]>>]])])])

\* tf.nn.depthwise_conv2d: kernel [kh, kw, in, multiplier]; output channel
\* c * multiplier + m is input channel c filtered by kernel[:, :, c, m].
DepthwiseConv2d(x, kernel, data_format) ==
  LET ca == ChannelAxis(data_format, 4)
      sa == SpatialAxis(data_format)
      kh == kernel.shape[1]
      kw == kernel.shape[2]
      mult == kernel.shape[4]
      shape == [[[x.shape EXCEPT ![ca] = kernel.shape[3] * mult]
                          EXCEPT ![sa] = x.shape[sa] - kh + 1]
                          EXCEPT ![sa + 1] = x.shape[sa + 1] - kw + 1]
      At(i, dh, dw) == x.data[[[[i EXCEPT ![ca] = i[ca] \div mult]
                                   EXCEPT ![sa] = i[sa] + dh]
                                   EXCEPT ![sa + 1] = i[sa + 1] + dw]]
  IN Tensor(shape, [i \in Indices(shape) |->
       Sum(kh, [dh \in 0..(kh - 1) |-> Sum(kw, [dw \in 0..(kw - 1) |->
         At(i, dh, dw) * kernel.data[<<dh, dw, i[ca] \div mult, i[ca] % mult>>]])])])

\* tf.nn.bias_add: bias[c] is added to every element of channel c.
BiasAdd(x, bias, data_format) ==
  LET ca == ChannelAxis(data_format, Len(x.shape))
  IN Tensor(x.shape, [i \in Indices(x.shape) |-> x.data[i] + bias.data[<<i[ca]>>]])

Activation(name, x) ==
  IF name = "relu"
  THEN Tensor(x.shape, [i \in Indices(x.shape) |-> Max(x.data[i], 0)])
  ELSE x

\* Example b (0-based) of a batch, as a tensor with batch dimension 1.
Example(t, b) ==
  LET shape == [t.shape EXCEPT ![1] = 1]
  IN Tensor(shape, [i \in Indices(shape) |-> t.data[[i EXCEPT ![1] = b]]])

(***************************************************************************)
(* The values the model feeds to the layers: weights after initialisation  *)
(* and training, inputs and routing weights are arbitrary numbers; each is *)
(* drawn from a small family of tensors indexed by a seed.                 *)
(***************************************************************************)
GenValue(seed, n) == (((seed + 1) * (n + 1) + ((n * n) \div 2) + seed * (n \div 3)) % 5) - 2

GenTensor(shape, seed) ==
  Tensor(shape, [i \in Indices(shape) |-> GenValue(seed, FlatIndex(shape, i))])

\* Routing weights are non-negative.
GenRouting(shape, seed) ==
  Tensor(shape, [i \in Indices(shape) |-> (GenValue(seed, FlatIndex(shape, i)) + 2) % 3])

Seeds == 1..MaxSeed

\* The shape of a batch of n images with ch channels, and the same with
\* other ranks (extra or missing spatial axes).
InputShape(rank, n, ch, data_format) ==
  LET spatial == [k \in 1..(rank - 2) |-> IF k = 1 THEN Height ELSE 1]
  IN IF data_format = "channels_first"
     THEN <<n, ch>> \o spatial
     ELSE <<n>> \o spatial \o <<ch>>

NoValue == [status |-> "none"]
NoLocals == [none |-> TRUE]
NoWeights == [w \in {} |-> 0]
NoFiles == [f \in {} |-> 0]

(***************************************************************************)
(* CondConv2D and DepthwiseCondConv2D.  A behaviour follows one layer      *)
(* object: it is constructed, built once (Keras builds a layer on its      *)
(* first use only) and then called any number of times.                    *)
(***************************************************************************)

\* A constructor that accepts zero experts.
CondConv_init_raises_zero_allowed(num_experts) == num_experts < 0

\* CondConv2D.__init__ / DepthwiseCondConv2D.__init__: the check of
\* num_experts that follows the base class constructor.
CondConv_init_raises(num_experts) == num_experts < 1

CondConv2D_new(filters, kh, num_experts, data_format, use_bias, activation) ==
  [cls |-> "CondConv2D",
   filters |-> filters,
   kernel_size |-> <<kh, 1>>,
   num_experts |-> num_experts,
   data_format |-> data_format,
   converted_data_format |-> IF data_format = "channels_first" THEN "NCHW" ELSE "NHWC",
   use_bias |-> use_bias,
   activation |-> activation,
   kernel_shape |-> <<>>,
   weights |-> NoWeights,
   built |-> FALSE]

DepthwiseCondConv2D_new(depth_multiplier, kh, num_experts, data_format, use_bias, activation) ==
  [cls |-> "DepthwiseCondConv2D",
   depth_multiplier |-> depth_multiplier,
   kernel_size |-> <<kh, 1>>,
   num_experts |-> num_experts,
   data_format |-> data_format,
   converted_data_format |-> IF data_format = "channels_first" THEN "NCHW" ELSE "NHWC",
   use_bias |-> use_bias,
   activation |-> activation,
   kernel_shape |-> <<>>,
   weights |-> NoWeights,
   built |-> FALSE]

\* The first argument of num_experts the model tries: one below zero.
MinExperts == 0 - 1

CondConv2D_init ==
  /\ layer.cls = "None"
  /\ \E filters \in FilterSizes, kh \in KernelHeights, num_experts \in MinExperts..MaxExperts,
     data_format \in DataFormats, use_bias \in BOOLEAN, activation \in Activations :
    /\ op' = "CondConv2D.__init__"
    /\ UNCHANGED files
    /\ args' = [cls |-> "CondConv2D", num_experts |-> num_experts]
    /\ locals' = NoLocals
    /\ IF CondConv_init_raises(num_experts)
       THEN /\ ret' = [status |-> "ValueError"]
            /\ UNCHANGED layer
       ELSE /\ ret' = [status |-> "ok"]
            /\ layer' = CondConv2D_new(filters, kh, num_experts, data_format, use_bias,
                                       activation)

DepthwiseCondConv2D_init ==
  /\ layer.cls = "None"
  /\ \E depth_multiplier \in FilterSizes, kh \in KernelHeights,
     num_experts \in MinExperts..MaxExperts,
     data_format \in DataFormats, use_bias \in BOOLEAN, activation \in Activations :
    /\ op' = "DepthwiseCondConv2D.__init__"
    /\ UNCHANGED files
    /\ args' = [cls |-> "DepthwiseCondConv2D", num_experts |-> num_experts]
    /\ locals' = NoLocals
    /\ IF CondConv_init_raises(num_experts)
       THEN /\ ret' = [status |-> "ValueError"]
            /\ UNCHANGED layer
       ELSE /\ ret' = [status |-> "ok"]
            /\ layer' = DepthwiseCondConv2D_new(depth_multiplier, kh, num_experts,
                                                data_format, use_bias, activation)

\* The input shapes handed to build: ranks MinRank..MaxRank, a known or unknown
\* batch size, a known or unknown number of channels.
MinRank == 3

BuildShapes(data_format) ==
  {InputShape(rank, n, ch, data_format) :
     rank \in MinRank..MaxRank, n \in {NoneDim, MaxBatch}, ch \in {NoneDim} \cup ChannelSizes}

\* A rank check that lets ranks above 4 pass.
CondConv2D_build_rank_raises_low_only(input_shape) == Len(input_shape) < 4

\* CondConv2D.build: the rank check.
CondConv2D_build_rank_raises(input_shape) == Len(input_shape) /= 4

\* CondConv2D._get_channel_axis, as a 1-based position in a shape.
CondConv2D_get_channel_axis(l, input_shape) ==
  IF l.data_format = "channels_first" THEN 2 ELSE Len(input_shape)

\* A build that raises leaves the layer as it is, so a second attempt reaches
\* no state that the first does not reach: build is taken from the state
\* the layer is in after construction.
CondConv2D_build ==
  /\ layer.cls = "CondConv2D"
  /\ ~layer.built
  /\ op /= "CondConv2D.build"
  /\ \E input_shape \in BuildShapes(layer.data_format), seed \in Seeds :
       /\ op' = "CondConv2D.build"
       /\ UNCHANGED files
       /\ args' = [input_shape |-> input_shape]
       /\ locals' = NoLocals
       /\ LET channel_axis == CondConv2D_get_channel_axis(layer, input_shape)
              input_dim == input_shape[channel_axis]
              kernel_shape == layer.kernel_size \o <<input_dim, layer.filters>>
              kernel_num_params == Prod(kernel_shape)
              condconv_kernel == GenTensor(<<layer.num_experts, kernel_num_params>>, seed)
              condconv_bias == GenTensor(<<layer.num_experts, layer.filters>>, seed + 1)
          IN IF CondConv2D_build_rank_raises(input_shape)
             THEN /\ ret' = [status |-> "ValueError"]
                  /\ UNCHANGED layer
             ELSE IF input_dim = NoneDim
             THEN /\ ret' = [status |-> "ValueError"]
                  /\ UNCHANGED layer
             ELSE /\ ret' = [status |-> "ok"]
                  /\ layer' = [layer EXCEPT
                       !.kernel_shape = kernel_shape,
                       !.weights = IF layer.use_bias
                                   THEN [condconv_kernel |-> condconv_kernel,
                                         condconv_bias |-> condconv_bias]
                                   ELSE [condconv_kernel |-> condconv_kernel],
                       !.built = TRUE]

\* DepthwiseCondConv2D.build: the rank check.
DepthwiseCondConv2D_build_rank_raises(input_shape) == Len(input_shape) < 4

DepthwiseCondConv2D_build ==
  /\ layer.cls = "DepthwiseCondConv2D"
  /\ ~layer.built
  /\ op /= "DepthwiseCondConv2D.build"
  /\ \E input_shape \in BuildShapes(layer.data_format), seed \in Seeds :
       /\ op' = "DepthwiseCondConv2D.build"
       /\ UNCHANGED files
       /\ args' = [input_shape |-> input_shape]
       /\ locals' = NoLocals
       /\ LET channel_axis == IF layer.data_format = "channels_first" THEN 2 ELSE 4
              input_dim == input_shape[channel_axis]
              depthwise_kernel_shape ==
                <<layer.kernel_size[1], layer.kernel_size[2], input_dim,
                  layer.depth_multiplier>>
              depthwise_kernel_num_params == Prod(depthwise_kernel_shape)
              bias_dim == input_dim * layer.depth_multiplier
              depthwise_condconv_kernel ==
                GenTensor(<<layer.num_experts, depthwise_kernel_num_params>>, seed)
              condconv_bias == GenTensor(<<layer.num_experts, bias_dim>>, seed + 1)
          IN IF DepthwiseCondConv2D_build_rank_raises(input_shape)
             THEN /\ ret' = [status |-> "ValueError"]
                  /\ UNCHANGED layer
             ELSE IF input_dim = NoneDim
             THEN /\ ret' = [status |-> "ValueError"]
                  /\ UNCHANGED layer
             ELSE /\ ret' = [status |-> "ok"]
                  /\ layer' = [layer EXCEPT
                       !.kernel_shape = depthwise_kernel_shape,
                       !.weights = IF layer.use_bias
                                   THEN [depthwise_condconv_kernel |->
                                           depthwise_condconv_kernel,
                                         condconv_bias |-> condconv_bias]
                                   ELSE [depthwise_condconv_kernel |->
                                           depthwise_condconv_kernel],
                       !.built = TRUE]

\* A loop that pairs the examples with the rows of kernels in reverse order.
CondConv_kernel_list_reversed(kernels, batch_size, kernel_shape) ==
  LET split == Split(kernels, batch_size)
  IN Table([b \in 1..batch_size |-> Reshape(split[batch_size + 1 - b], kernel_shape)])

\* The loop of call: example b is convolved with row b of kernels, reshaped.
CondConv_kernel_list(kernels, batch_size, kernel_shape) ==
  LET split == Split(kernels, batch_size)
  IN Table([b \in 1..batch_size |-> Reshape(split[b], kernel_shape)])

CondConv2D_convolve(l, inputs, kernel_list, batch_size) ==
  LET split == Split(inputs, batch_size)
      outputs_list == Table([b \in 1..batch_size |->
                         Convolution(split[b], kernel_list[b], l.data_format)])
  IN Concat(outputs_list)

DepthwiseCondConv2D_convolve(l, inputs, kernel_list, batch_size) ==
  LET split == Split(inputs, batch_size)
      outputs_list == Table([b \in 1..batch_size |->
                         DepthwiseConv2d(split[b], kernel_list[b], l.data_format)])
  IN Concat(outputs_list)

\* A bias loop that adds the first row of biases to every output.
CondConv_bias_add_first_row(l, outputs, biases, batch_size) ==
  LET outs == Split(outputs, batch_size)
      bs == Split(biases, batch_size)
      bias_outputs_list == Table([b \in 1..batch_size |->
                              BiasAdd(outs[b], Squeeze(bs[1]), l.data_format)])
  IN Concat(bias_outputs_list)

\* The bias loop of call: row b of biases is added to output b.
CondConv_bias_add(l, outputs, biases, batch_size) ==
  LET outs == Split(outputs, batch_size)
      bs == Split(biases, batch_size)
      bias_outputs_list == Table([b \in 1..batch_size |->
                              BiasAdd(outs[b], Squeeze(bs[b]), l.data_format)])
  IN Concat(bias_outputs_list)

\* A call leaves the layer as it is, so a call that follows a call reaches
\* no state that the first call does not reach: calls are taken from the
\* state the layer is in after build.
CondConv2D_call ==
  /\ layer.cls = "CondConv2D"
  /\ layer.built
  /\ op /= "CondConv2D.call"
  /\ \E batch_size \in 1..MaxBatch, seed \in Seeds :
       LET inputs == GenTensor(InputShape(4, batch_size, layer.kernel_shape[3],
                                          layer.data_format), seed)
           routing_weights == GenRouting(<<batch_size, layer.num_experts>>, seed)
           kernels == MatMul(routing_weights, layer.weights.condconv_kernel)
           kernel_list == CondConv_kernel_list(kernels, batch_size, layer.kernel_shape)
           conv == CondConv2D_convolve(layer, inputs, kernel_list, batch_size)
           outputs == IF layer.use_bias
                      THEN CondConv_bias_add(layer, conv,
                             MatMul(routing_weights, layer.weights.condconv_bias),
                             batch_size)
                      ELSE conv
       IN /\ op' = "CondConv2D.call"
          /\ UNCHANGED files
          /\ args' = [inputs |-> inputs, routing_weights |-> routing_weights]
          /\ locals' = [kernel |-> kernel_list]
          /\ ret' = [status |-> "ok", value |-> Activation(layer.activation, outputs)]
          /\ UNCHANGED layer

DepthwiseCondConv2D_call ==
  /\ layer.cls = "DepthwiseCondConv2D"
  /\ layer.built
  /\ op /= "DepthwiseCondConv2D.call"
  /\ \E batch_size \in 1..MaxBatch, seed \in Seeds :
       LET inputs == GenTensor(InputShape(4, batch_size, layer.kernel_shape[3],
                                          layer.data_format), seed)
           routing_weights == GenRouting(<<batch_size, layer.num_experts>>, seed)
           depthwise_kernels ==
             MatMul(routing_weights, layer.weights.depthwise_condconv_kernel)
           kernel_list ==
             CondConv_kernel_list(depthwise_kernels, batch_size, layer.kernel_shape)
           conv == DepthwiseCondConv2D_convolve(layer, inputs, kernel_list, batch_size)
           outputs == IF layer.use_bias
                      THEN CondConv_bias_add(layer, conv,
                             MatMul(routing_weights, layer.weights.condconv_bias),
                             batch_size)
                      ELSE conv
       IN /\ op' = "DepthwiseCondConv2D.call"
          /\ UNCHANGED files
          /\ args' = [inputs |-> inputs, routing_weights |-> routing_weights]
          /\ locals' = [kernel |-> kernel_list]
          /\ ret' = [status |-> "ok", value |-> Activation(layer.activation, outputs)]
          /\ UNCHANGED layer

NoLayer == [cls |-> "None", built |-> FALSE]

Init ==
  /\ layer = NoLayer
  /\ op = "none"
  /\ args = NoValue
  /\ ret = NoValue
  /\ locals = NoLocals
  /\ files = NoFiles

NextCond ==
  \/ CondConv2D_init
  \/ DepthwiseCondConv2D_init
  \/ CondConv2D_build
  \/ DepthwiseCondConv2D_build
  \/ CondConv2D_call
  \/ DepthwiseCondConv2D_call

SpecCond == Init /\ [][NextCond]_vars

(***************************************************************************)
(* Properties of CondConv2D and DepthwiseCondConv2D.                       *)
(***************************************************************************)
CondCalls == {"CondConv2D.call", "DepthwiseCondConv2D.call"}
CondInits == {"CondConv2D.__init__", "DepthwiseCondConv2D.__init__"}

\* The expert kernels of a built layer, one flattened kernel per row.
ExpertKernels(l) ==
  IF l.cls = "CondConv2D"
  THEN l.weights.condconv_kernel
  ELSE l.weights.depthwise_condconv_kernel

\* sum over the experts e of routing_weights[b, e] * experts[e, k]
Mixture(routing_weights, experts, b, k) ==
  Sum(experts.shape[1],
      [e \in 0..(experts.shape[1] - 1) |->
         routing_weights.data[<<b, e>>] * experts.data[<<e, k>>]])

\* The kernel the claim names for example b (0-based): entry i of it is the
\* mixture of the experts' entries at the row-major position of i.
MixedKernel(l, routing_weights, b) ==
  Tensor(l.kernel_shape,
         [i \in Indices(l.kernel_shape) |->
            Mixture(routing_weights, ExpertKernels(l), b, FlatIndex(l.kernel_shape, i))])

MixedBias(l, routing_weights, b) ==
  LET shape == <<l.weights.condconv_bias.shape[2]>>
  IN Tensor(shape, [i \in Indices(shape) |->
                      Mixture(routing_weights, l.weights.condconv_bias, b, i[1])])

\* C1: in CondConv2D.call and DepthwiseCondConv2D.call the kernel convolved
\* with example b is the routing-weighted sum of the expert kernels,
\* sum over e of routing_weights[b, e] * expert_kernel[e], in the layer's
\* kernel shape.
C1_KernelIsRoutedMixture ==
  op \in CondCalls =>
    \A b \in 1..args.inputs.shape[1] :
      locals.kernel[b] = MixedKernel(layer, args.routing_weights, b - 1)

\* A call on two examples with two experts, where the two examples are
\* routed differently and get different kernels of more than one entry.
C1_Witness ==
  /\ op \in CondCalls
  /\ args.inputs.shape[1] = 2
  /\ layer.num_experts = 2
  /\ Prod(layer.kernel_shape) > 2
  /\ \A e \in 0..1 : args.routing_weights.data[<<0, e>>] /= 0
  /\ locals.kernel[1] /= locals.kernel[2]

\* The output the claim names for example b (0-based).
ExpectedOutput(l, inputs, routing_weights, b) ==
  LET kernel == MixedKernel(l, routing_weights, b)
      conv == IF l.cls = "CondConv2D"
              THEN Convolution(Example(inputs, b), kernel, l.data_format)
              ELSE DepthwiseConv2d(Example(inputs, b), kernel, l.data_format)
      biased == IF l.use_bias
                THEN BiasAdd(conv, MixedBias(l, routing_weights, b), l.data_format)
                ELSE conv
  IN Activation(l.activation, biased)

\* C2: CondConv2D.call and DepthwiseCondConv2D.call return one output per
\* input example, in order: output i is computed from input i with the
\* kernel and the bias of row i of routing_weights.
C2_OutputsFollowInputs ==
  op \in CondCalls =>
    /\ ret.status = "ok"
    /\ ret.value.shape[1] = args.inputs.shape[1]
    /\ \A b \in 0..(args.inputs.shape[1] - 1) :
         Example(ret.value, b) = ExpectedOutput(layer, args.inputs, args.routing_weights, b)

\* A call with a bias on two examples that are routed differently and whose
\* outputs differ.
C2_Witness ==
  /\ op \in CondCalls
  /\ args.inputs.shape[1] = 2
  /\ layer.use_bias
  /\ MixedBias(layer, args.routing_weights, 0) /= MixedBias(layer, args.routing_weights, 1)
  /\ Example(ret.value, 0) /= Example(ret.value, 1)

\* C3: constructing CondConv2D or DepthwiseCondConv2D raises ValueError
\* exactly when num_experts < 1; otherwise the layer is constructed and its
\* num_experts attribute is the argument.
C3_InitChecksNumExperts ==
  op \in CondInits =>
    /\ (ret.status = "ValueError") <=> (args.num_experts < 1)
    /\ args.num_experts >= 1 =>
         /\ ret.status = "ok"
         /\ layer.cls = args.cls
         /\ layer.num_experts = args.num_experts

\* A constructor called with zero experts has raised.
C3_Witness ==
  /\ op \in CondInits
  /\ args.num_experts = 0
  /\ ret.status = "ValueError"
  /\ layer.cls = "None"

\* C4: CondConv2D.build raises ValueError for every input shape whose rank
\* is not 4, creates no weights then and leaves the layer not built.
C4_BuildRejectsOtherRanks ==
  (op = "CondConv2D.build" /\ Len(args.input_shape) /= 4) =>
    /\ ret.status = "ValueError"
    /\ DOMAIN layer.weights = {}
    /\ ~layer.built

\* CondConv2D.build has raised for an input shape of rank 5 whose dimensions
\* are all known.
C4_Witness ==
  /\ op = "CondConv2D.build"
  /\ Len(args.input_shape) = 5
  /\ \A k \in 1..5 : args.input_shape[k] /= NoneDim
  /\ ret.status = "ValueError"

\* C5: DepthwiseCondConv2D.build raises ValueError for every input shape
\* whose rank is different from 4, lower or higher.
C5_DepthwiseBuildRejectsOtherRanks ==
  (op = "DepthwiseCondConv2D.build" /\ Len(args.input_shape) /= 4) =>
    ret.status = "ValueError"

(***************************************************************************)
(* Conv2DBatchEnsemble, Conv1DBatchEnsemble, DepthwiseConv2DBatchEnsemble.  *)
(***************************************************************************)
MaxEnsemble == 2
MaxExamples == 2

\* The values of the rank argument of Conv2DBatchEnsemble the model tries.
RankChoices == {1, 2}

\* The kernel height (1D: the kernel width) of the ensemble layers.
EnsembleKernel == Height - 1

\* expand_dims applied twice at the same axis.
ExpandDimsTwice(t, axis) == ExpandDims(ExpandDims(t, axis), axis)

\* Conv2DBatchEnsemble.__init__: the base Conv2D gets no bias and no
\* activation; they are kept as ensemble_bias and ensemble_activation.
Conv2DBatchEnsemble_new(filters, rank, ensemble_size, data_format, use_bias, activation) ==
  [cls |-> "Conv2DBatchEnsemble",
   filters |-> filters,
   kernel_size |-> <<EnsembleKernel, 1>>,
   data_format |-> data_format,
   activation |-> "None",
   use_bias |-> FALSE,
   rank |-> rank,
   ensemble_size |-> ensemble_size,
   ensemble_activation |-> activation,
   use_ensemble_bias |-> use_bias,
   weights |-> NoWeights,
   built |-> FALSE]

Conv1DBatchEnsemble_new(filters, ensemble_size, data_format, use_bias, activation) ==
  [cls |-> "Conv1DBatchEnsemble",
   filters |-> filters,
   kernel_size |-> <<EnsembleKernel>>,
   data_format |-> data_format,
   activation |-> "None",
   use_bias |-> FALSE,
   ensemble_size |-> ensemble_size,
   ensemble_activation |-> activation,
   use_ensemble_bias |-> use_bias,
   weights |-> NoWeights,
   built |-> FALSE]

\* DepthwiseConv2DBatchEnsemble.__init__: activation and use_bias are also
\* handed to the base DepthwiseConv2D.
DepthwiseConv2DBatchEnsemble_new(depth_multiplier, ensemble_size, data_format, use_bias, activation) ==
  [cls |-> "DepthwiseConv2DBatchEnsemble",
   depth_multiplier |-> depth_multiplier,
   kernel_size |-> <<EnsembleKernel, 1>>,
   data_format |-> data_format,
   activation |-> activation,
   use_bias |-> use_bias,
   ensemble_size |-> ensemble_size,
   ensemble_activation |-> activation,
   use_ensemble_bias |-> use_bias,
   weights |-> NoWeights,
   built |-> FALSE]

Conv2DBatchEnsemble_init ==
  /\ layer.cls = "None"
  /\ \E filters \in FilterSizes, rank \in RankChoices, ensemble_size \in 1..MaxEnsemble,
        data_format \in DataFormats, use_bias \in BOOLEAN, activation \in Activations :
       /\ op' = "Conv2DBatchEnsemble.__init__"
       /\ UNCHANGED files
       /\ args' = [cls |-> "Conv2DBatchEnsemble"]
       /\ locals' = NoLocals
       /\ ret' = [status |-> "ok"]
       /\ layer' = Conv2DBatchEnsemble_new(filters, rank, ensemble_size, data_format,
                                           use_bias, activation)

Conv1DBatchEnsemble_init ==
  /\ layer.cls = "None"
  /\ \E filters \in FilterSizes, ensemble_size \in 1..MaxEnsemble,
        data_format \in DataFormats, use_bias \in BOOLEAN, activation \in Activations :
       /\ op' = "Conv1DBatchEnsemble.__init__"
       /\ UNCHANGED files
       /\ args' = [cls |-> "Conv1DBatchEnsemble"]
       /\ locals' = NoLocals
       /\ ret' = [status |-> "ok"]
       /\ layer' = Conv1DBatchEnsemble_new(filters, ensemble_size, data_format, use_bias,
                                           activation)

DepthwiseConv2DBatchEnsemble_init ==
  /\ layer.cls = "None"
  /\ \E depth_multiplier \in FilterSizes, ensemble_size \in 1..MaxEnsemble,
        data_format \in DataFormats, use_bias \in BOOLEAN, activation \in Activations :
       /\ op' = "DepthwiseConv2DBatchEnsemble.__init__"
       /\ UNCHANGED files
       /\ args' = [cls |-> "DepthwiseConv2DBatchEnsemble"]
       /\ locals' = NoLocals
       /\ ret' = [status |-> "ok"]
       /\ layer' = DepthwiseConv2DBatchEnsemble_new(depth_multiplier, ensemble_size,
                                                    data_format, use_bias, activation)

\* The weights get arbitrary values: a different family member for each.
Conv2DBatchEnsemble_build ==
  /\ layer.cls = "Conv2DBatchEnsemble"
  /\ ~layer.built
  /\ \E input_channel \in ChannelSizes, seed \in Seeds :
       LET input_shape == InputShape(4, NoneDim, input_channel, layer.data_format)
           alpha_shape == IF layer.rank > 1
                          THEN <<layer.rank, layer.ensemble_size, input_channel>>
                          ELSE <<layer.ensemble_size, input_channel>>
           gamma_shape == IF layer.rank > 1
                          THEN <<layer.rank, layer.ensemble_size, layer.filters>>
                          ELSE <<layer.ensemble_size, layer.filters>>
           kernel == GenTensor(layer.kernel_size \o <<input_channel, layer.filters>>, seed)
           alpha == GenTensor(alpha_shape, seed + 1)
           gamma == GenTensor(gamma_shape, seed + 2)
           ensemble_bias == GenTensor(<<layer.ensemble_size, layer.filters>>, seed + 3)
       IN /\ op' = "Conv2DBatchEnsemble.build"
          /\ UNCHANGED files
          /\ args' = [input_shape |-> input_shape]
          /\ locals' = NoLocals
          /\ ret' = [status |-> "ok"]
          /\ layer' = [layer EXCEPT
               !.weights = IF layer.use_ensemble_bias
                           THEN [kernel |-> kernel, alpha |-> alpha, gamma |-> gamma,
                                 ensemble_bias |-> ensemble_bias]
                           ELSE [kernel |-> kernel, alpha |-> alpha, gamma |-> gamma],
               !.built = TRUE]

Conv1DBatchEnsemble_build ==
  /\ layer.cls = "Conv1DBatchEnsemble"
  /\ ~layer.built
  /\ \E input_channel \in ChannelSizes, seed \in Seeds :
       LET input_shape == InputShape(3, NoneDim, input_channel, layer.data_format)
           kernel == GenTensor(layer.kernel_size \o <<input_channel, layer.filters>>, seed)
           alpha == GenTensor(<<layer.ensemble_size, input_channel>>, seed + 1)
           gamma == GenTensor(<<layer.ensemble_size, layer.filters>>, seed + 2)
           ensemble_bias == GenTensor(<<layer.ensemble_size, layer.filters>>, seed + 3)
       IN /\ op' = "Conv1DBatchEnsemble.build"
          /\ UNCHANGED files
          /\ args' = [input_shape |-> input_shape]
          /\ locals' = NoLocals
          /\ ret' = [status |-> "ok"]
          /\ layer' = [layer EXCEPT
               !.weights = IF layer.use_ensemble_bias
                           THEN [kernel |-> kernel, alpha |-> alpha, gamma |-> gamma,
                                 ensemble_bias |-> ensemble_bias]
                           ELSE [kernel |-> kernel, alpha |-> alpha, gamma |-> gamma],
               !.built = TRUE]

\* The base DepthwiseConv2D.build creates depthwise_kernel and, with
\* use_bias, its own bias.
DepthwiseConv2DBatchEnsemble_build ==
  /\ layer.cls = "DepthwiseConv2DBatchEnsemble"
  /\ ~layer.built
  /\ \E input_channel \in ChannelSizes, seed \in Seeds :
       LET input_shape == InputShape(4, NoneDim, input_channel, layer.data_format)
           filters == input_channel * layer.depth_multiplier
           depthwise_kernel ==
             GenTensor(layer.kernel_size \o <<input_channel, layer.depth_multiplier>>, seed)
           alpha == GenTensor(<<layer.ensemble_size, input_channel>>, seed + 1)
           gamma == GenTensor(<<layer.ensemble_size, filters>>, seed + 2)
           ensemble_bias == GenTensor(<<layer.ensemble_size, filters>>, seed + 3)
           bias == GenTensor(<<filters>>, seed + 4)
       IN /\ op' = "DepthwiseConv2DBatchEnsemble.build"
          /\ UNCHANGED files
          /\ args' = [input_shape |-> input_shape]
          /\ locals' = NoLocals
          /\ ret' = [status |-> "ok"]
          /\ layer' = [layer EXCEPT
               !.weights = IF layer.use_ensemble_bias
                           THEN [depthwise_kernel |-> depthwise_kernel, bias |-> bias,
                                 alpha |-> alpha, gamma |-> gamma,
                                 ensemble_bias |-> ensemble_bias]
                           ELSE [depthwise_kernel |-> depthwise_kernel,
                                 alpha |-> alpha, gamma |-> gamma],
               !.built = TRUE]

\* call of the base classes tf.keras.layers.Conv2D, Conv1D and
\* DepthwiseConv2D: convolution, then the base layer's own bias and
\* activation when it has them.
Conv2D_call(l, inputs) ==
  LET outputs == Convolution(inputs, l.weights.kernel, l.data_format)
      biased == IF l.use_bias THEN BiasAdd(outputs, l.weights.bias, l.data_format)
                ELSE outputs
  IN Activation(l.activation, biased)

Conv1D_call(l, inputs) ==
  LET outputs == Convolution1D(inputs, l.weights.kernel, l.data_format)
      biased == IF l.use_bias THEN BiasAdd(outputs, l.weights.bias, l.data_format)
                ELSE outputs
  IN Activation(l.activation, biased)

DepthwiseConv2D_call(l, inputs) ==
  LET outputs == DepthwiseConv2d(inputs, l.weights.depthwise_kernel, l.data_format)
      biased == IF l.use_bias THEN BiasAdd(outputs, l.weights.bias, l.data_format)
                ELSE outputs
  IN Activation(l.activation, biased)

\* tf.reshape raises when the number of elements differs.
ReshapeFits(t, shape) == Prod(t.shape) = Prod(shape)

Failed == [status |-> "InvalidArgumentError"]

\* A tiling along the first axis: the members alternate from one example
\* to the next.
Conv2DBatchEnsemble_tile_interleaved(w, examples_per_model, batch_size, dim) ==
  Tile(w, <<examples_per_model, 1>>)

\* Conv2DBatchEnsemble.call, rank = 1: the per-example factor built from a
\* weight of shape [ensemble_size, dim].
Conv2DBatchEnsemble_tile(w, examples_per_model, batch_size, dim) ==
  Reshape(Tile(w, <<1, examples_per_model>>), <<batch_size, dim>>)

\* Conv2DBatchEnsemble.call, rank > 1: the same for a weight of shape
\* [rank, ensemble_size, dim].
Conv2DBatchEnsemble_tile_rank(w, rank, examples_per_model, batch_size, dim) ==
  Reshape(Tile(w, <<1, 1, examples_per_model>>), <<rank, batch_size, dim>>)

Conv2DBatchEnsemble_compute(l, inputs) ==
  LET input_dim == l.weights.alpha.shape[Len(l.weights.alpha.shape)]
      batch_size == inputs.shape[1]
      examples_per_model == batch_size \div l.ensemble_size
      fits == l.ensemble_size * examples_per_model = batch_size
      \* rank > 1
      axis_r == IF l.data_format = "channels_first" THEN -1 ELSE 2
      alpha_r == ExpandDimsTwice(
                   Conv2DBatchEnsemble_tile_rank(l.weights.alpha, l.rank, examples_per_model,
                                                 batch_size, input_dim), axis_r)
      gamma_r == ExpandDimsTwice(
                   Conv2DBatchEnsemble_tile_rank(l.weights.gamma, l.rank, examples_per_model,
                                                 batch_size, l.filters), axis_r)
      perturb5 == Mul(ExpandDims(inputs, 0), alpha_r)
      perturb_inputs == Reshape(perturb5, <<l.rank * batch_size>>
                                          \o SubSeq(perturb5.shape, 3, 5))
      conv_r == Conv2D_call(l, perturb_inputs)
      outputs_r == ReduceSum(Mul(Reshape(conv_r, <<l.rank, batch_size>>
                                                 \o SubSeq(conv_r.shape, 2, 4)),
                                 gamma_r))
      \* rank = 1
      axis_1 == IF l.data_format = "channels_first" THEN -1 ELSE 1
      alpha_1 == ExpandDimsTwice(
                   Conv2DBatchEnsemble_tile(l.weights.alpha, examples_per_model, batch_size,
                                            input_dim), axis_1)
      gamma_1 == ExpandDimsTwice(
                   Conv2DBatchEnsemble_tile(l.weights.gamma, examples_per_model, batch_size,
                                            l.filters), axis_1)
      outputs_1 == Mul(Conv2D_call(l, Mul(inputs, alpha_1)), gamma_1)
      axis_change == IF l.rank > 1 THEN axis_r ELSE axis_1
      alpha == IF l.rank > 1 THEN alpha_r ELSE alpha_1
      gamma == IF l.rank > 1 THEN gamma_r ELSE gamma_1
      outputs == IF l.rank > 1 THEN outputs_r ELSE outputs_1
      bias == ExpandDimsTwice(
                Conv2DBatchEnsemble_tile(l.weights.ensemble_bias, examples_per_model,
                                         batch_size, l.filters), axis_change)
  IN IF ~fits THEN Failed
     ELSE IF ~l.use_ensemble_bias
     THEN [status |-> "ok", alpha |-> alpha, gamma |-> gamma,
           value |-> Activation(l.ensemble_activation, outputs)]
     ELSE IF ~Broadcastable(outputs.shape, bias.shape) THEN Failed
     ELSE [status |-> "ok", alpha |-> alpha, gamma |-> gamma,
           value |-> Activation(l.ensemble_activation, Add(outputs, bias))]

Conv1DBatchEnsemble_tile(w, examples_per_model, batch_size, dim) ==
  Reshape(Tile(w, <<1, examples_per_model>>), <<batch_size, dim>>)

Conv1DBatchEnsemble_compute(l, inputs) ==
  LET axis_change == IF l.data_format = "channels_first" THEN -1 ELSE 1
      batch_size == inputs.shape[1]
      input_dim == l.weights.alpha.shape[2]
      examples_per_model == batch_size \div l.ensemble_size
      fits == l.ensemble_size * examples_per_model = batch_size
      alpha == ExpandDims(
                 Conv1DBatchEnsemble_tile(l.weights.alpha, examples_per_model, batch_size,
                                          input_dim), axis_change)
      gamma == ExpandDims(
                 Conv1DBatchEnsemble_tile(l.weights.gamma, examples_per_model, batch_size,
                                          l.filters), axis_change)
      outputs == Mul(Conv1D_call(l, Mul(inputs, alpha)), gamma)
      bias == ExpandDims(
                Conv1DBatchEnsemble_tile(l.weights.ensemble_bias, examples_per_model,
                                         batch_size, l.filters), axis_change)
  IN IF ~fits THEN Failed
     ELSE [status |-> "ok", alpha |-> alpha, gamma |-> gamma,
           value |-> Activation(l.ensemble_activation,
                                IF l.use_ensemble_bias THEN Add(outputs, bias) ELSE outputs)]

DepthwiseConv2DBatchEnsemble_tile(w, examples_per_model, batch_size, dim) ==
  Reshape(Tile(w, <<1, examples_per_model>>), <<batch_size, dim>>)

DepthwiseConv2DBatchEnsemble_compute(l, inputs) ==
  LET axis_change == IF l.data_format = "channels_first" THEN -1 ELSE 1
      batch_size == inputs.shape[1]
      input_dim == l.weights.alpha.shape[2]
      filters == l.weights.gamma.shape[2]
      examples_per_model == batch_size \div l.ensemble_size
      fits == l.ensemble_size * examples_per_model = batch_size
      alpha == ExpandDimsTwice(
                 DepthwiseConv2DBatchEnsemble_tile(l.weights.alpha, examples_per_model,
                                                   batch_size, input_dim), axis_change)
      gamma == ExpandDimsTwice(
                 DepthwiseConv2DBatchEnsemble_tile(l.weights.gamma, examples_per_model,
                                                   batch_size, filters), axis_change)
      outputs == Mul(DepthwiseConv2D_call(l, Mul(inputs, alpha)), gamma)
      bias == ExpandDimsTwice(
                DepthwiseConv2DBatchEnsemble_tile(l.weights.ensemble_bias,
                                                  examples_per_model, batch_size, filters),
                axis_change)
  IN IF ~fits THEN Failed
     ELSE [status |-> "ok", alpha |-> alpha, gamma |-> gamma,
           value |-> Activation(l.ensemble_activation,
                                IF l.use_ensemble_bias THEN Add(outputs, bias) ELSE outputs)]

\* What a call leaves in ret and locals.
Returned(r) == IF r.status = "ok" THEN [status |-> "ok", value |-> r.value] ELSE r
Factors(r) == IF r.status = "ok" THEN [alpha |-> r.alpha, gamma |-> r.gamma] ELSE NoLocals

EnsembleBatches(l) == 1..(l.ensemble_size * MaxExamples)

Conv2DBatchEnsemble_call ==
  /\ layer.cls = "Conv2DBatchEnsemble"
  /\ layer.built
  /\ op /= "Conv2DBatchEnsemble.call"
  /\ \E batch_size \in EnsembleBatches(layer), seed \in Seeds :
       LET inputs == GenTensor(InputShape(4, batch_size, layer.weights.kernel.shape[3],
                                          layer.data_format), seed)
           r == Conv2DBatchEnsemble_compute(layer, inputs)
       IN /\ op' = "Conv2DBatchEnsemble.call"
          /\ UNCHANGED files
          /\ args' = [inputs |-> inputs]
          /\ locals' = Factors(r)
          /\ ret' = Returned(r)
          /\ UNCHANGED layer

Conv1DBatchEnsemble_call ==
  /\ layer.cls = "Conv1DBatchEnsemble"
  /\ layer.built
  /\ op /= "Conv1DBatchEnsemble.call"
  /\ \E batch_size \in EnsembleBatches(layer), seed \in Seeds :
       LET inputs == GenTensor(InputShape(3, batch_size, layer.weights.kernel.shape[2],
                                          layer.data_format), seed)
           r == Conv1DBatchEnsemble_compute(layer, inputs)
       IN /\ op' = "Conv1DBatchEnsemble.call"
          /\ UNCHANGED files
          /\ args' = [inputs |-> inputs]
          /\ locals' = Factors(r)
          /\ ret' = Returned(r)
          /\ UNCHANGED layer

DepthwiseConv2DBatchEnsemble_call ==
  /\ layer.cls = "DepthwiseConv2DBatchEnsemble"
  /\ layer.built
  /\ op /= "DepthwiseConv2DBatchEnsemble.call"
  /\ \E batch_size \in EnsembleBatches(layer), seed \in Seeds :
       LET inputs == GenTensor(InputShape(4, batch_size,
                                          layer.weights.depthwise_kernel.shape[3],
                                          layer.data_format), seed)
           r == DepthwiseConv2DBatchEnsemble_compute(layer, inputs)
       IN /\ op' = "DepthwiseConv2DBatchEnsemble.call"
          /\ UNCHANGED files
          /\ args' = [inputs |-> inputs]
          /\ locals' = Factors(r)
          /\ ret' = Returned(r)
          /\ UNCHANGED layer

NextBatchEnsemble ==
  \/ Conv2DBatchEnsemble_init
  \/ Conv1DBatchEnsemble_init
  \/ DepthwiseConv2DBatchEnsemble_init
  \/ Conv2DBatchEnsemble_build
  \/ Conv1DBatchEnsemble_build
  \/ DepthwiseConv2DBatchEnsemble_build
  \/ Conv2DBatchEnsemble_call
  \/ Conv1DBatchEnsemble_call
  \/ DepthwiseConv2DBatchEnsemble_call

SpecBatchEnsemble == Init /\ [][NextBatchEnsemble]_vars

(***************************************************************************)
(* Properties of the batch ensemble layers.                                *)
(***************************************************************************)
BatchEnsembleCalls ==
  {"Conv2DBatchEnsemble.call", "Conv1DBatchEnsemble.call", "DepthwiseConv2DBatchEnsemble.call"}

\* x with every element of channel c multiplied by w[m, c].
ScaleChannels(x, w, m, data_format) ==
  LET ca == ChannelAxis(data_format, Len(x.shape))
  IN Tensor(x.shape, [i \in Indices(x.shape) |-> x.data[i] * w.data[<<m, i[ca]>>]])

\* x with w[m, c] added to every element of channel c.
ShiftChannels(x, w, m, data_format) ==
  LET ca == ChannelAxis(data_format, Len(x.shape))
  IN Tensor(x.shape, [i \in Indices(x.shape) |-> x.data[i] + w.data[<<m, i[ca]>>]])

\* The call of the base class on one example, with the layer's one kernel.
BaseCall(l, x) ==
  CASE l.cls \in {"Conv1DBatchEnsemble", "Conv1DRank1"} -> Conv1D_call(l, x)
    [] l.cls \in {"Conv2DBatchEnsemble", "Conv2DRank1"} -> Conv2D_call(l, x)
    [] l.cls = "DepthwiseConv2DBatchEnsemble" -> DepthwiseConv2D_call(l, x)

\* Example i (0-based) computed with the factors of ensemble member m.
MemberOutput(l, inputs, i, m) ==
  LET scaled == ScaleChannels(Example(inputs, i), l.weights.alpha, m, l.data_format)
      outputs == ScaleChannels(BaseCall(l, scaled), l.weights.gamma, m, l.data_format)
      biased == IF l.use_ensemble_bias
                THEN ShiftChannels(outputs, l.weights.ensemble_bias, m, l.data_format)
                ELSE outputs
  IN Activation(l.ensemble_activation, biased)

\* The layer is one that C6 is about: Conv2DBatchEnsemble only with rank 1.
RankOne(l) == l.cls = "Conv2DBatchEnsemble" => l.rank = 1

\* C6: in Conv1DBatchEnsemble, Conv2DBatchEnsemble (rank = 1) and
\* DepthwiseConv2DBatchEnsemble, for a batch of ensemble_size * n examples,
\* example i is computed with the shared kernel and with the factors of member
\* floor(i / n): inputs times alpha[floor(i / n)], outputs times
\* gamma[floor(i / n)].
C6_ExampleUsesItsMember ==
  (/\ op \in BatchEnsembleCalls
   /\ RankOne(layer)
   /\ args.inputs.shape[1] % layer.ensemble_size = 0) =>
    LET batch_size == args.inputs.shape[1]
        n == batch_size \div layer.ensemble_size
    IN /\ ret.status = "ok"
       /\ ret.value.shape[1] = batch_size
       /\ \A i \in 0..(batch_size - 1) :
            Example(ret.value, i) = MemberOutput(layer, args.inputs, i, i \div n)

\* A call on two examples per member of an ensemble of two whose members
\* have different factors: computed for the other member, the first example
\* would come out differently.
C6_Witness ==
  /\ op \in BatchEnsembleCalls
  /\ RankOne(layer)
  /\ layer.ensemble_size = 2
  /\ args.inputs.shape[1] = 4
  /\ ret.status = "ok"
  /\ MemberOutput(layer, args.inputs, 1, 0) /= MemberOutput(layer, args.inputs, 1, 1)
  /\ MemberOutput(layer, args.inputs, 2, 0) /= MemberOutput(layer, args.inputs, 2, 1)

(***************************************************************************)
(* Conv1DRank1 and Conv2DRank1.                                            *)
(***************************************************************************)

\* initializers.get: the 'trainable_...' names give an initializer that is
\* itself a Keras layer; 'ones', 'zeros' and 'glorot_uniform' are plain
\* initializers.
Initializers == {"trainable_normal", "ones"}
BiasInitializers == {"trainable_normal", "zeros"}
IsLayer(initializer) == initializer \in {"trainable_normal", "trainable_half_cauchy"}

min_perturbation_value == -10
max_perturbation_value == 10

\* tf.clip_by_value
ClipByValue(t, lo, hi) ==
  Tensor(t.shape, [i \in Indices(t.shape) |->
                     IF t.data[i] < lo THEN lo ELSE IF t.data[i] > hi THEN hi ELSE t.data[i]])

Rank1_new(cls, kernel_size, filters, ensemble_size, data_format, use_bias, activation, alpha_initializer, gamma_initializer, bias_initializer, use_additive_perturbation) ==
  [cls |-> cls,
   filters |-> filters,
   kernel_size |-> kernel_size,
   data_format |-> data_format,
   activation |-> "None",
   use_bias |-> FALSE,
   ensemble_activation |-> activation,
   use_ensemble_bias |-> use_bias,
   alpha_initializer |-> alpha_initializer,
   gamma_initializer |-> gamma_initializer,
   ensemble_bias_initializer |-> bias_initializer,
   use_additive_perturbation |-> use_additive_perturbation,
   min_perturbation_value |-> min_perturbation_value,
   max_perturbation_value |-> max_perturbation_value,
   ensemble_size |-> ensemble_size,
   weights |-> NoWeights,
   attrs |-> {},
   built |-> FALSE]

\* The constructor arguments tried: without a bias the bias initializer is
\* left at its default.
Rank1_init(cls, kernel_size) ==
  /\ layer.cls = "None"
  /\ \E filters \in FilterSizes, ensemble_size \in 1..MaxEnsemble,
        data_format \in DataFormats, use_bias \in BOOLEAN, activation \in Activations,
        alpha_initializer \in Initializers, gamma_initializer \in Initializers,
        bias_initializer \in BiasInitializers, use_additive_perturbation \in BOOLEAN :
       /\ use_bias \/ bias_initializer = "zeros"
       /\ op' = cls \o ".__init__"
       /\ UNCHANGED files
       /\ args' = [cls |-> cls]
       /\ locals' = NoLocals
       /\ ret' = [status |-> "ok"]
       /\ layer' = Rank1_new(cls, kernel_size, filters, ensemble_size, data_format,
                             use_bias, activation, alpha_initializer, gamma_initializer,
                             bias_initializer, use_additive_perturbation)

Conv1DRank1_init == Rank1_init("Conv1DRank1", <<EnsembleKernel>>)

Conv2DRank1_init == Rank1_init("Conv2DRank1", <<EnsembleKernel, 1>>)

\* The weights of a rank-1 layer. Where the initializer is a layer, the
\* weight is a random variable and the tensor kept here is its location.
Rank1_weights(l, input_channel, seed) ==
  LET kernel == GenTensor(l.kernel_size \o <<input_channel, l.filters>>, seed)
      alpha == GenTensor(<<l.ensemble_size, input_channel>>, seed + 1)
      gamma == GenTensor(<<l.ensemble_size, l.filters>>, seed + 2)
      ensemble_bias == GenTensor(<<l.ensemble_size, l.filters>>, seed + 3)
  IN IF l.use_ensemble_bias
     THEN [kernel |-> kernel, alpha |-> alpha, gamma |-> gamma,
           ensemble_bias |-> ensemble_bias]
     ELSE [kernel |-> kernel, alpha |-> alpha, gamma |-> gamma]

\* Conv1DRank1.build sets ensemble_bias_shape on both branches.
Conv1DRank1_build ==
  /\ layer.cls = "Conv1DRank1"
  /\ ~layer.built
  /\ \E input_channel \in ChannelSizes, seed \in Seeds :
       /\ op' = "Conv1DRank1.build"
       /\ UNCHANGED files
       /\ args' = [input_shape |-> InputShape(3, NoneDim, input_channel, layer.data_format)]
       /\ locals' = NoLocals
       /\ ret' = [status |-> "ok"]
       /\ layer' = [layer EXCEPT
            !.weights = Rank1_weights(layer, input_channel, seed),
            !.attrs = {"ensemble_bias_shape", "alpha_shape", "gamma_shape"},
            !.built = TRUE]

\* Conv2DRank1.build sets bias_shape when the layer has a bias and
\* ensemble_bias_shape only when it has none.
Conv2DRank1_build ==
  /\ layer.cls = "Conv2DRank1"
  /\ ~layer.built
  /\ \E input_channel \in ChannelSizes, seed \in Seeds :
       /\ op' = "Conv2DRank1.build"
       /\ UNCHANGED files
       /\ args' = [input_shape |-> InputShape(4, NoneDim, input_channel, layer.data_format)]
       /\ locals' = NoLocals
       /\ ret' = [status |-> "ok"]
       /\ layer' = [layer EXCEPT
            !.weights = Rank1_weights(layer, input_channel, seed),
            !.attrs = IF layer.use_ensemble_bias
                      THEN {"bias_shape", "alpha_shape", "gamma_shape"}
                      ELSE {"ensemble_bias_shape", "alpha_shape", "gamma_shape"},
            !.built = TRUE]

\* initializer(shape, dtype).distribution.sample(n): n draws of the whole
\* weight, each the location plus a deviation; shape [n] + shape.
Sample(location, n, seed) ==
  LET shape == <<n>> \o location.shape
      noise == GenTensor(shape, seed)
  IN Tensor(shape, [i \in Indices(shape) |-> location.data[Tail(i)] + noise.data[i]])

NoSample == [shape |-> <<0>>]

\* Conv1DRank1.call: the per-example rows of a factor, from the draws of a
\* trainable initializer or from the plain weight.
Conv1DRank1_rows(l, w, sample, is_layer, clip, examples_per_model, batch_size, dim) ==
  LET drawn == IF clip
               THEN ClipByValue(sample, l.min_perturbation_value, l.max_perturbation_value)
               ELSE sample
      t == IF is_layer THEN Transpose(drawn, <<1, 0, 2>>)
           ELSE Tile(w, <<1, examples_per_model>>)
  IN Reshape(t, <<batch_size, dim>>)

Conv1DRank1_compute(l, inputs, seed) ==
  LET axis_change == IF l.data_format = "channels_first" THEN -1 ELSE 1
      batch_size == inputs.shape[1]
      input_dim == l.weights.alpha.shape[2]
      examples_per_model == batch_size \div l.ensemble_size
      fits == l.ensemble_size * examples_per_model = batch_size
      alpha_sample == IF IsLayer(l.alpha_initializer)
                      THEN Sample(l.weights.alpha, examples_per_model, seed + 5)
                      ELSE NoSample
      gamma_sample == IF IsLayer(l.gamma_initializer)
                      THEN Sample(l.weights.gamma, examples_per_model, seed + 6)
                      ELSE NoSample
      bias_sample == IF l.use_ensemble_bias /\ IsLayer(l.ensemble_bias_initializer)
                     THEN Sample(l.weights.ensemble_bias, examples_per_model, seed + 7)
                     ELSE NoSample
      alpha == ExpandDims(
                 Conv1DRank1_rows(l, l.weights.alpha, alpha_sample,
                                  IsLayer(l.alpha_initializer), TRUE,
                                  examples_per_model, batch_size, input_dim), axis_change)
      gamma == ExpandDims(
                 Conv1DRank1_rows(l, l.weights.gamma, gamma_sample,
                                  IsLayer(l.gamma_initializer), TRUE,
                                  examples_per_model, batch_size, l.filters), axis_change)
      outputs == IF l.use_additive_perturbation
                 THEN Add(Conv1D_call(l, Add(inputs, alpha)), gamma)
                 ELSE Mul(Conv1D_call(l, Mul(inputs, alpha)), gamma)
      bias == ExpandDims(
                Conv1DRank1_rows(l, l.weights.ensemble_bias, bias_sample,
                                 IsLayer(l.ensemble_bias_initializer), FALSE,
                                 examples_per_model, batch_size, l.filters), axis_change)
      samples == [alpha |-> alpha_sample, gamma |-> gamma_sample, bias |-> bias_sample]
  IN IF ~fits THEN Failed
     ELSE IF /\ l.use_ensemble_bias
             /\ IsLayer(l.ensemble_bias_initializer)
             /\ "ensemble_bias_shape" \notin l.attrs
     THEN [status |-> "AttributeError"]
     ELSE [status |-> "ok", samples |-> samples,
           value |-> Activation(l.ensemble_activation,
                                IF l.use_ensemble_bias THEN Add(outputs, bias) ELSE outputs)]

Conv2DRank1_rows(l, w, sample, is_layer, clip, examples_per_model, batch_size, dim) ==
  LET drawn == IF clip
               THEN ClipByValue(sample, l.min_perturbation_value, l.max_perturbation_value)
               ELSE sample
      t == IF is_layer THEN Transpose(drawn, <<1, 0, 2>>)
           ELSE Tile(w, <<1, examples_per_model>>)
  IN Reshape(t, <<batch_size, dim>>)

Conv2DRank1_compute(l, inputs, seed) ==
  LET axis_change == IF l.data_format = "channels_first" THEN -1 ELSE 1
      batch_size == inputs.shape[1]
      input_dim == l.weights.alpha.shape[2]
      examples_per_model == batch_size \div l.ensemble_size
      fits == l.ensemble_size * examples_per_model = batch_size
      alpha_sample == IF IsLayer(l.alpha_initializer)
                      THEN Sample(l.weights.alpha, examples_per_model, seed + 5)
                      ELSE NoSample
      gamma_sample == IF IsLayer(l.gamma_initializer)
                      THEN Sample(l.weights.gamma, examples_per_model, seed + 6)
                      ELSE NoSample
      bias_sample == IF l.use_ensemble_bias /\ IsLayer(l.ensemble_bias_initializer)
                     THEN Sample(l.weights.ensemble_bias, examples_per_model, seed + 7)
                     ELSE NoSample
      alpha == ExpandDimsTwice(
                 Conv2DRank1_rows(l, l.weights.alpha, alpha_sample,
                                  IsLayer(l.alpha_initializer), TRUE,
                                  examples_per_model, batch_size, input_dim), axis_change)
      gamma == ExpandDimsTwice(
                 Conv2DRank1_rows(l, l.weights.gamma, gamma_sample,
                                  IsLayer(l.gamma_initializer), TRUE,
                                  examples_per_model, batch_size, l.filters), axis_change)
      outputs == IF l.use_additive_perturbation
                 THEN Add(Conv2D_call(l, Add(inputs, alpha)), gamma)
                 ELSE Mul(Conv2D_call(l, Mul(inputs, alpha)), gamma)
      bias == ExpandDimsTwice(
                Conv2DRank1_rows(l, l.weights.ensemble_bias, bias_sample,
                                 IsLayer(l.ensemble_bias_initializer), FALSE,
                                 examples_per_model, batch_size, l.filters), axis_change)
      samples == [alpha |-> alpha_sample, gamma |-> gamma_sample, bias |-> bias_sample]
  IN IF ~fits THEN Failed
     ELSE IF /\ l.use_ensemble_bias
             /\ IsLayer(l.ensemble_bias_initializer)
             /\ "ensemble_bias_shape" \notin l.attrs
     THEN [status |-> "AttributeError"]
     ELSE [status |-> "ok", samples |-> samples,
           value |-> Activation(l.ensemble_activation,
                                IF l.use_ensemble_bias THEN Add(outputs, bias) ELSE outputs)]

Conv1DRank1_call ==
  /\ layer.cls = "Conv1DRank1"
  /\ layer.built
  /\ op /= "Conv1DRank1.call"
  /\ \E batch_size \in EnsembleBatches(layer), seed \in Seeds :
       LET inputs == GenTensor(InputShape(3, batch_size, layer.weights.kernel.shape[2],
                                          layer.data_format), seed)
           r == Conv1DRank1_compute(layer, inputs, seed)
       IN /\ op' = "Conv1DRank1.call"
          /\ UNCHANGED files
          /\ args' = [inputs |-> inputs]
          /\ locals' = IF r.status = "ok" THEN r.samples ELSE NoLocals
          /\ ret' = Returned(r)
          /\ UNCHANGED layer

Conv2DRank1_call ==
  /\ layer.cls = "Conv2DRank1"
  /\ layer.built
  /\ op /= "Conv2DRank1.call"
  /\ \E batch_size \in EnsembleBatches(layer), seed \in Seeds :
       LET inputs == GenTensor(InputShape(4, batch_size, layer.weights.kernel.shape[3],
                                          layer.data_format), seed)
           r == Conv2DRank1_compute(layer, inputs, seed)
       IN /\ op' = "Conv2DRank1.call"
          /\ UNCHANGED files
          /\ args' = [inputs |-> inputs]
          /\ locals' = IF r.status = "ok" THEN r.samples ELSE NoLocals
          /\ ret' = Returned(r)
          /\ UNCHANGED layer

NextRank1 ==
  \/ Conv1DRank1_init
  \/ Conv2DRank1_init
  \/ Conv1DRank1_build
  \/ Conv2DRank1_build
  \/ Conv1DRank1_call
  \/ Conv2DRank1_call

SpecRank1 == Init /\ [][NextRank1]_vars

(***************************************************************************)
(* Properties of the rank-1 layers.                                        *)
(***************************************************************************)

Rank1Calls == {"Conv1DRank1.call", "Conv2DRank1.call"}

\* Row m of a factor for draw s: the clipped draw of component m where the
\* initializer is a layer, the component's weight otherwise.
ComponentRow(l, w, sample, is_layer, clip, m, s) ==
  LET dim == w.shape[2]
      v(c) == IF ~is_layer THEN w.data[<<m, c>>]
              ELSE IF clip /\ sample.data[<<s, m, c>>] < l.min_perturbation_value
              THEN l.min_perturbation_value
              ELSE IF clip /\ sample.data[<<s, m, c>>] > l.max_perturbation_value
              THEN l.max_perturbation_value
              ELSE sample.data[<<s, m, c>>]
  IN Tensor(<<1, dim>>, [i \in Indices(<<1, dim>>) |-> v(i[2])])

\* What one example yields under mixture component m with draw s.
ComponentOutput(l, inputs, samples, i, m, s) ==
  LET x == Example(inputs, i)
      alpha == ComponentRow(l, l.weights.alpha, samples.alpha,
                            IsLayer(l.alpha_initializer), TRUE, m, s)
      gamma == ComponentRow(l, l.weights.gamma, samples.gamma,
                            IsLayer(l.gamma_initializer), TRUE, m, s)
      bias == ComponentRow(l, l.weights.ensemble_bias, samples.bias,
                           IsLayer(l.ensemble_bias_initializer), FALSE, m, s)
      perturbed == IF l.use_additive_perturbation
                   THEN ShiftChannels(BaseCall(l, ShiftChannels(x, alpha, 0, l.data_format)),
                                      gamma, 0, l.data_format)
                   ELSE ScaleChannels(BaseCall(l, ScaleChannels(x, alpha, 0, l.data_format)),
                                      gamma, 0, l.data_format)
      biased == IF l.use_ensemble_bias
                THEN ShiftChannels(perturbed, bias, 0, l.data_format)
                ELSE perturbed
  IN Activation(l.ensemble_activation, biased)

\* C7: for a batch of ensemble_size * n examples, Conv1DRank1 and
\* Conv2DRank1 return ensemble_size * n outputs, and output i is example i
\* computed under mixture component floor(i / n), with factors tiled from the
\* weights or drawn from that component's distribution.
C7_ExampleUsesItsComponent ==
  (op \in Rank1Calls /\ args.inputs.shape[1] % layer.ensemble_size = 0)
  => /\ ret.status = "ok"
     /\ ret.value.shape[1] = args.inputs.shape[1]
     /\ LET n == args.inputs.shape[1] \div layer.ensemble_size
        IN \A i \in 0..(args.inputs.shape[1] - 1) :
             Example(ret.value, i) =
               ComponentOutput(layer, args.inputs, locals, i, i \div n, i % n)

(***************************************************************************)
(* Conv2DFlipout, Conv1DFlipout, Conv2DHierarchical and                    *)
(* Conv2DVariationalDropout, with their parents Conv2DReparameterization   *)
(* and Conv1DReparameterization.                                           *)
(***************************************************************************)

KernelInitializers == {"trainable_normal", "glorot_uniform"}
ScaleInitializers == {"trainable_half_cauchy", "ones"}

\* utils.add_weight: a weight whose initializer is a layer is the random
\* variable the initializer returns, any other weight is a plain variable.
IsRandomVariable(l) == IsLayer(l.kernel_initializer)

Reparameterization_new(cls, kernel_size, filters, data_format, use_bias, activation, kernel_initializer) ==
  [cls |-> cls,
   filters |-> filters,
   kernel_size |-> kernel_size,
   data_format |-> data_format,
   activation |-> activation,
   use_bias |-> use_bias,
   kernel_initializer |-> kernel_initializer,
   bias_initializer |-> "zeros",
   convolution_op |-> "None",
   weights |-> NoWeights,
   built |-> FALSE]

Conv2DHierarchical_new(kernel_size, filters, data_format, use_bias, activation, kernel_initializer, local_scale_initializer, global_scale_initializer) ==
  [cls |-> "Conv2DHierarchical",
   filters |-> filters,
   kernel_size |-> kernel_size,
   data_format |-> data_format,
   activation |-> activation,
   use_bias |-> use_bias,
   kernel_initializer |-> kernel_initializer,
   bias_initializer |-> "zeros",
   local_scale_initializer |-> local_scale_initializer,
   global_scale_initializer |-> global_scale_initializer,
   convolution_op |-> "None",
   weights |-> NoWeights,
   built |-> FALSE]

Reparameterization_init(cls, kernel_size) ==
  /\ layer.cls = "None"
  /\ \E filters \in FilterSizes, data_format \in DataFormats, use_bias \in BOOLEAN,
        activation \in Activations, kernel_initializer \in KernelInitializers :
       /\ op' = cls \o ".__init__"
       /\ UNCHANGED files
       /\ args' = [cls |-> cls]
       /\ locals' = NoLocals
       /\ ret' = [status |-> "ok"]
       /\ layer' = Reparameterization_new(cls, kernel_size, filters, data_format, use_bias,
                                          activation, kernel_initializer)

Conv2DFlipout_init == Reparameterization_init("Conv2DFlipout", <<EnsembleKernel, 1>>)

Conv1DFlipout_init == Reparameterization_init("Conv1DFlipout", <<EnsembleKernel>>)

Conv2DVariationalDropout_init ==
  Reparameterization_init("Conv2DVariationalDropout", <<EnsembleKernel, 1>>)

Conv2DHierarchical_init ==
  /\ layer.cls = "None"
  /\ \E filters \in FilterSizes, data_format \in DataFormats, use_bias \in BOOLEAN,
        activation \in Activations, kernel_initializer \in KernelInitializers,
        local_scale_initializer \in ScaleInitializers,
        global_scale_initializer \in ScaleInitializers :
       /\ op' = "Conv2DHierarchical.__init__"
       /\ UNCHANGED files
       /\ args' = [cls |-> "Conv2DHierarchical"]
       /\ locals' = NoLocals
       /\ ret' = [status |-> "ok"]
       /\ layer' = Conv2DHierarchical_new(<<EnsembleKernel, 1>>, filters, data_format,
                                          use_bias, activation, kernel_initializer,
                                          local_scale_initializer,
                                          global_scale_initializer)

\* Values of a scale and of a variance are positive.
GenPositive(shape, seed) ==
  Tensor(shape, [i \in Indices(shape) |-> 1 + ((GenValue(seed, FlatIndex(shape, i)) + 2) % 3)])

Ones(shape) == Tensor(shape, [i \in Indices(shape) |-> 1])

\* The weights the base build adds. A random-variable kernel is kept as its
\* current value together with the mean and the variance of its distribution.
Reparameterization_weights(l, input_channel, seed) ==
  LET shape == l.kernel_size \o <<input_channel, l.filters>>
      kernel == GenTensor(shape, seed)
      kernel_mean == GenTensor(shape, seed + 1)
      kernel_variance == GenPositive(shape, seed + 2)
      bias == GenTensor(<<l.filters>>, seed + 3)
      plain == IF IsRandomVariable(l)
               THEN [kernel |-> Add(kernel_mean, kernel), kernel_mean |-> kernel_mean,
                     kernel_variance |-> kernel_variance]
               ELSE [kernel |-> kernel]
  IN IF l.use_bias THEN plain @@ [bias |-> bias] ELSE plain

Reparameterization_build(cls, rank) ==
  /\ layer.cls = cls
  /\ ~layer.built
  /\ \E input_channel \in ChannelSizes, seed \in Seeds :
       /\ op' = cls \o ".build"
       /\ UNCHANGED files
       /\ args' = [input_shape |-> InputShape(rank, NoneDim, input_channel, layer.data_format)]
       /\ locals' = NoLocals
       /\ ret' = [status |-> "ok"]
       /\ layer' = [layer EXCEPT
            !.weights = Reparameterization_weights(layer, input_channel, seed),
            !.built = TRUE]

Conv2DFlipout_build == Reparameterization_build("Conv2DFlipout", 4)

Conv1DFlipout_build == Reparameterization_build("Conv1DFlipout", 3)

Conv2DVariationalDropout_build == Reparameterization_build("Conv2DVariationalDropout", 4)

\* Conv2DHierarchical.build: the two scales, then the base build.
Conv2DHierarchical_build ==
  /\ layer.cls = "Conv2DHierarchical"
  /\ ~layer.built
  /\ \E input_channel \in ChannelSizes, seed \in Seeds :
       LET local_scale == IF IsLayer(layer.local_scale_initializer)
                          THEN GenPositive(<<layer.filters>>, seed + 4)
                          ELSE Ones(<<layer.filters>>)
           global_scale == IF IsLayer(layer.global_scale_initializer)
                           THEN GenPositive(<<>>, seed + 5)
                           ELSE Ones(<<>>)
       IN /\ op' = "Conv2DHierarchical.build"
          /\ UNCHANGED files
          /\ args' = [input_shape |->
                        InputShape(4, NoneDim, input_channel, layer.data_format)]
          /\ locals' = NoLocals
          /\ ret' = [status |-> "ok"]
          /\ layer' = [layer EXCEPT
               !.weights = Reparameterization_weights(layer, input_channel, seed)
                             @@ [local_scale |-> local_scale, global_scale |-> global_scale],
               !.built = TRUE]

\* call_weights: a weight whose initializer is a layer is drawn again; the
\* draw of the kernel is its mean plus a deviation.
Conv2DReparameterization_call_weights(l, seed) ==
  LET k == IF IsLayer(l.kernel_initializer)
           THEN [l EXCEPT !.weights.kernel =
                   Add(l.weights.kernel_mean, GenTensor(l.weights.kernel.shape, seed))]
           ELSE l
  IN IF IsLayer(k.bias_initializer)
     THEN [k EXCEPT !.weights.bias = GenTensor(k.weights.bias.shape, seed + 1)]
     ELSE k

Conv1DReparameterization_call_weights(l, seed) ==
  LET k == IF IsLayer(l.kernel_initializer)
           THEN [l EXCEPT !.weights.kernel =
                   Add(l.weights.kernel_mean, GenTensor(l.weights.kernel.shape, seed))]
           ELSE l
  IN IF IsLayer(k.bias_initializer)
     THEN [k EXCEPT !.weights.bias = GenTensor(k.weights.bias.shape, seed + 1)]
     ELSE k

Conv2DHierarchical_call_weights(l, seed) ==
  LET a == IF IsLayer(l.local_scale_initializer)
           THEN [l EXCEPT !.weights.local_scale =
                   GenPositive(l.weights.local_scale.shape, seed + 2)]
           ELSE l
      b == IF IsLayer(a.global_scale_initializer)
           THEN [a EXCEPT !.weights.global_scale =
                   GenPositive(a.weights.global_scale.shape, seed + 3)]
           ELSE a
  IN Conv2DReparameterization_call_weights(b, seed)

\* self.call_weights() runs the method of the layer's own class.
call_weights(l, seed) ==
  CASE l.cls = "Conv2DHierarchical" -> Conv2DHierarchical_call_weights(l, seed)
    [] l.cls = "Conv1DFlipout" -> Conv1DReparameterization_call_weights(l, seed)
    [] OTHER -> Conv2DReparameterization_call_weights(l, seed)

\* Conv2DReparameterization.call and Conv1DReparameterization.call: the
\* weights are called, then the Keras convolution layer does the rest.
Conv2D_returns(called, inputs) == [layer |-> called, value |-> Conv2D_call(called, inputs)]

Conv1D_returns(called, inputs) == [layer |-> called, value |-> Conv1D_call(called, inputs)]

Conv2DReparameterization_call(l, inputs, seed) == Conv2D_returns(call_weights(l, seed), inputs)

Conv1DReparameterization_call(l, inputs, seed) == Conv1D_returns(call_weights(l, seed), inputs)

\* An interval that also takes its upper end.
RandomUniform_inclusive(shape, minval, maxval, seed) ==
  Tensor(shape, [i \in Indices(shape) |->
                   minval + ((GenValue(seed, FlatIndex(shape, i)) + 2) % (maxval - minval + 1))])

\* tf.random.uniform with an integer dtype: every entry in [minval, maxval).
RandomUniform(shape, minval, maxval, seed) ==
  Tensor(shape, [i \in Indices(shape) |->
                   minval + ((GenValue(seed, FlatIndex(shape, i)) + 2) % (maxval - minval))])

\* 2 * tf.random.uniform(shape, minval=0, maxval=2, dtype=tf.int32) - 1
RandomSign(shape, seed) == Sub(Mul(Scalar(2), RandomUniform(shape, 0, 2, seed)), Scalar(1))

\* The data format a cached convolution op was made for.
ConvolutionOpFormat(convolution_op) ==
  IF convolution_op \in {"NHWC", "NWC"} THEN "channels_last" ELSE "channels_first"

\* A perturbation that is not multiplied by sign_output.
Conv2DFlipout_flip_without_sign_output(l, inputs, convolution_op, sign_input, sign_output) ==
  [convolution_op |-> convolution_op,
   sign_input |-> sign_input,
   sign_output |-> sign_output,
   outputs |-> Add(Convolution(inputs, l.weights.kernel_mean,
                               ConvolutionOpFormat(convolution_op)),
                   Convolution(Mul(inputs, sign_input),
                               Sub(l.weights.kernel, l.weights.kernel_mean),
                               ConvolutionOpFormat(convolution_op)))]

\* The tail of _apply_kernel, from the two sign tensors on.
Conv2DFlipout_flip(l, inputs, convolution_op, sign_input, sign_output) ==
  [convolution_op |-> convolution_op,
   sign_input |-> sign_input,
   sign_output |-> sign_output,
   outputs |-> Add(Convolution(inputs, l.weights.kernel_mean,
                               ConvolutionOpFormat(convolution_op)),
                   Mul(Convolution(Mul(inputs, sign_input),
                                   Sub(l.weights.kernel, l.weights.kernel_mean),
                                   ConvolutionOpFormat(convolution_op)),
                       sign_output))]

Conv2DFlipout_apply_kernel(l, inputs, seed) ==
  LET batch_dim == inputs.shape[1]
      channels == IF l.data_format = "channels_first" THEN inputs.shape[2]
                  ELSE inputs.shape[Len(inputs.shape)]
      sign_input_shape == IF l.data_format = "channels_first"
                          THEN <<batch_dim, channels, 1, 1>>
                          ELSE <<batch_dim, 1, 1, channels>>
      sign_output_shape == IF l.data_format = "channels_first"
                           THEN <<batch_dim, l.filters, 1, 1>>
                           ELSE <<batch_dim, 1, 1, l.filters>>
  IN Conv2DFlipout_flip(l, inputs,
                        IF l.convolution_op = "None"
                        THEN (IF l.data_format = "channels_last" THEN "NHWC" ELSE "NCHW")
                        ELSE l.convolution_op,
                        RandomSign(sign_input_shape, seed),
                        RandomSign(sign_output_shape, seed + 1))

Conv1DFlipout_flip(l, inputs, convolution_op, sign_input, sign_output) ==
  [convolution_op |-> convolution_op,
   sign_input |-> sign_input,
   sign_output |-> sign_output,
   outputs |-> Add(Convolution1D(inputs, l.weights.kernel_mean,
                                 ConvolutionOpFormat(convolution_op)),
                   Mul(Convolution1D(Mul(inputs, sign_input),
                                     Sub(l.weights.kernel, l.weights.kernel_mean),
                                     ConvolutionOpFormat(convolution_op)),
                       sign_output))]

Conv1DFlipout_apply_kernel(l, inputs, seed) ==
  LET batch_dim == inputs.shape[1]
      channels == IF l.data_format = "channels_first" THEN inputs.shape[2]
                  ELSE inputs.shape[Len(inputs.shape)]
      sign_input_shape == IF l.data_format = "channels_first"
                          THEN <<batch_dim, channels, 1>>
                          ELSE <<batch_dim, 1, channels>>
      sign_output_shape == IF l.data_format = "channels_first"
                           THEN <<batch_dim, l.filters, 1>>
                           ELSE <<batch_dim, 1, l.filters>>
  IN Conv1DFlipout_flip(l, inputs,
                        IF l.convolution_op = "None"
                        THEN (IF l.data_format = "channels_last" THEN "NWC" ELSE "NCW")
                        ELSE l.convolution_op,
                        RandomSign(sign_input_shape, seed),
                        RandomSign(sign_output_shape, seed + 1))

Conv2DHierarchical_apply_kernel(l, inputs, seed) ==
  LET local_scale == IF l.data_format = "channels_first"
                     THEN Reshape(l.weights.local_scale, <<1, l.filters, 1, 1>>)
                     ELSE Reshape(l.weights.local_scale, <<1, 1, 1, l.filters>>)
  IN [Conv2DFlipout_apply_kernel(l, inputs, seed)
        EXCEPT !.outputs = Mul(@, Mul(local_scale, l.weights.global_scale))]

\* self._apply_kernel(inputs) runs the method of the layer's own class.
apply_kernel(l, inputs, seed) ==
  CASE l.cls = "Conv2DHierarchical" -> Conv2DHierarchical_apply_kernel(l, inputs, seed)
    [] l.cls = "Conv1DFlipout" -> Conv1DFlipout_apply_kernel(l, inputs, seed)
    [] OTHER -> Conv2DFlipout_apply_kernel(l, inputs, seed)

\* A return of the parent's call that also caches a convolution op.
Flipout_parent_caching_op(l, p, inputs) ==
  [layer |-> [p.layer EXCEPT !.convolution_op = IF Len(inputs.shape) = 3 THEN "NWC" ELSE "NHWC"],
   value |-> p.value,
   locals |-> [sampled |-> FALSE,
               outputs |-> IF Len(inputs.shape) = 3
                           THEN Convolution1D(inputs, p.layer.weights.kernel, l.data_format)
                           ELSE Convolution(inputs, p.layer.weights.kernel, l.data_format)]]

\* What a call without a random-variable kernel returns: the parent's call.
\* outputs is the convolution before the bias.
Flipout_parent(l, p, inputs) ==
  [layer |-> p.layer, value |-> p.value,
   locals |-> [sampled |-> FALSE,
               outputs |-> IF Len(inputs.shape) = 3
                           THEN Convolution1D(inputs, p.layer.weights.kernel, l.data_format)
                           ELSE Convolution(inputs, p.layer.weights.kernel, l.data_format)]]

\* The end of call: bias and activation on what _apply_kernel returned.
Flipout_outputs(l, r) ==
  [layer |-> [l EXCEPT !.convolution_op = r.convolution_op],
   value |-> Activation(l.activation,
                        IF l.use_bias THEN BiasAdd(r.outputs, l.weights.bias, l.data_format)
                        ELSE r.outputs),
   locals |-> [sampled |-> TRUE, sign_input |-> r.sign_input,
               sign_output |-> r.sign_output, outputs |-> r.outputs]]

\* call with a random-variable kernel, after call_weights.
Flipout_sampled(called, inputs, seed) ==
  Flipout_outputs(called, apply_kernel(called, inputs, seed + 4))

\* Conv2DFlipout.call, which Conv2DHierarchical inherits.
Conv2DFlipout_compute(l, inputs, seed) ==
  IF ~IsRandomVariable(l)
  THEN Flipout_parent(l, Conv2DReparameterization_call(l, inputs, seed), inputs)
  ELSE Flipout_sampled(call_weights(l, seed), inputs, seed)

Conv1DFlipout_compute(l, inputs, seed) ==
  IF ~IsRandomVariable(l)
  THEN Flipout_parent(l, Conv1DReparameterization_call(l, inputs, seed), inputs)
  ELSE Flipout_sampled(call_weights(l, seed), inputs, seed)

\* A call draws the weights again and, with a random-variable kernel, caches
\* the convolution op: it changes the layer. Each layer is followed through
\* its first call.
Flipout_call(cls, rank) ==
  /\ layer.cls = cls
  /\ layer.built
  /\ op /= cls \o ".call"
  /\ \E batch_size \in 1..MaxBatch, seed \in Seeds :
       \E inputs \in {GenTensor(InputShape(rank, batch_size,
                                           layer.weights.kernel.shape[rank - 1],
                                           layer.data_format), seed)} :
         \E r \in {IF rank = 3 THEN Conv1DFlipout_compute(layer, inputs, seed)
                   ELSE Conv2DFlipout_compute(layer, inputs, seed)} :
           /\ op' = cls \o ".call"
           /\ UNCHANGED files
           /\ args' = [inputs |-> inputs]
           /\ locals' = r.locals
           /\ ret' = [status |-> "ok", value |-> r.value]
           /\ layer' = r.layer

Conv2DFlipout_call == Flipout_call("Conv2DFlipout", 4)

Conv1DFlipout_call == Flipout_call("Conv1DFlipout", 3)

Conv2DHierarchical_call == Flipout_call("Conv2DHierarchical", 4)

\* The training argument and the learning phase: None, a Python bool or
\* constant (static) or a tensor whose value is known only when it runs.
NoTraining == [given |-> FALSE]
Flags == [given : {TRUE}, static : BOOLEAN, value : BOOLEAN]

\* A call without a training flag that never applies dropout.
Conv2DVariationalDropout_training_phase_ignored(training, learning_phase) ==
  IF ~training.given THEN [given |-> TRUE, static |-> TRUE, value |-> FALSE] ELSE training

\* if training is None: training = tf.keras.backend.learning_phase()
Conv2DVariationalDropout_training(training, learning_phase) ==
  IF ~training.given THEN learning_phase ELSE training

\* utils.smart_constant_value: the value of a bool or of a constant tensor,
\* None for any other tensor.
smart_constant_value(pred) ==
  IF pred.static THEN [known |-> TRUE, value |-> pred.value] ELSE [known |-> FALSE]

\* exp(8), the bound tf.clip_by_value(log_alpha, -8., 8.) puts on alpha,
\* rounded to an integer.
MaxAlpha == 2981

\* The variance dropped_inputs uses for one weight: alpha = variance / mean^2
\* clipped to [1 / MaxAlpha, MaxAlpha], times mean^2 (in integers, epsilon
\* taken as 0).
ClippedVariance(mean, variance) ==
  IF variance > MaxAlpha * mean * mean THEN MaxAlpha * mean * mean
  ELSE IF variance * MaxAlpha < mean * mean THEN (mean * mean) \div MaxAlpha
  ELSE variance

Square(t) == Tensor(t.shape, [i \in Indices(t.shape) |-> t.data[i] * t.data[i]])

\* dropped_inputs: the Normal random variable with the means and the
\* variance (stddevs squared) of the outputs, and the activation applied to it.
Conv2DVariationalDropout_dropped_inputs(l, inputs) ==
  LET op_format == ConvolutionOpFormat(l.convolution_op)
      mean == l.weights.kernel_mean
      variance == Tensor(mean.shape, [i \in Indices(mean.shape) |->
                    ClippedVariance(mean.data[i], l.weights.kernel_variance.data[i])])
      means == Convolution(inputs, mean, op_format)
      biased == IF l.use_bias THEN BiasAdd(means, l.weights.bias, l.data_format)
                ELSE means
  IN [distribution |-> "Normal", loc |-> biased,
      variance |-> Convolution(Square(inputs), variance, op_format),
      activation |-> l.activation]

Conv2DVariationalDropout_compute(l, inputs, training, learning_phase, seed) ==
  IF ~IsRandomVariable(l)
  THEN LET p == Conv2DReparameterization_call(l, inputs, seed)
       IN [layer |-> p.layer, branch |-> "convolution", value |-> p.value]
  ELSE LET called == call_weights(l, seed)
           flag == Conv2DVariationalDropout_training(training, learning_phase)
           cached == [called EXCEPT !.convolution_op =
                        IF @ = "None"
                        THEN (IF l.data_format = "channels_last" THEN "NHWC" ELSE "NCHW")
                        ELSE @]
           training_value == smart_constant_value(flag)
           \* tf.cond runs the branch its predicate selects
           dropped == IF training_value.known THEN training_value.value ELSE flag.value
           p == Conv2DReparameterization_call(cached, inputs, seed + 4)
       IN IF dropped
          THEN [layer |-> cached, branch |-> "dropped_inputs",
                value |-> Conv2DVariationalDropout_dropped_inputs(cached, inputs)]
          ELSE [layer |-> p.layer, branch |-> "convolution", value |-> p.value]

\* The learning phase matters only to a call without a training flag. As
\* for the Flipout layers, each layer is followed through its first call.
Conv2DVariationalDropout_call ==
  /\ layer.cls = "Conv2DVariationalDropout"
  /\ layer.built
  /\ op /= "Conv2DVariationalDropout.call"
  /\ \E batch_size \in 1..MaxBatch, seed \in Seeds,
        training \in Flags \cup {NoTraining}, learning_phase \in Flags :
       LET inputs == GenTensor(InputShape(4, batch_size, layer.weights.kernel.shape[3],
                                          layer.data_format), seed)
           r == Conv2DVariationalDropout_compute(layer, inputs, training, learning_phase,
                                                 seed)
       IN /\ training.given => learning_phase = [given |-> TRUE, static |-> TRUE,
                                                 value |-> FALSE]
          /\ op' = "Conv2DVariationalDropout.call"
          /\ UNCHANGED files
          /\ args' = [inputs |-> inputs, training |-> training,
                      learning_phase |-> learning_phase]
          /\ locals' = [branch |-> r.branch]
          /\ ret' = [status |-> "ok", value |-> r.value]
          /\ layer' = r.layer

NextFlipout ==
  \/ Conv2DFlipout_init
  \/ Conv1DFlipout_init
  \/ Conv2DHierarchical_init
  \/ Conv2DVariationalDropout_init
  \/ Conv2DFlipout_build
  \/ Conv1DFlipout_build
  \/ Conv2DHierarchical_build
  \/ Conv2DVariationalDropout_build
  \/ Conv2DFlipout_call
  \/ Conv1DFlipout_call
  \/ Conv2DHierarchical_call
  \/ Conv2DVariationalDropout_call

SpecFlipout == Init /\ [][NextFlipout]_vars

(***************************************************************************)
(* Properties of the Flipout, hierarchical and variational-dropout layers. *)
(***************************************************************************)

FlipoutCalls == {"Conv2DFlipout.call", "Conv1DFlipout.call"}

\* The shape with one entry per (example, channel) and 1 on every spatial
\* axis.
PerExampleChannelShape(data_format, rank, batch, n) ==
  [k \in 1..rank |-> IF k = 1 THEN batch
                     ELSE IF k = ChannelAxis(data_format, rank) THEN n ELSE 1]

IsSignTensor(t) == \A i \in Indices(t.shape) : t.data[i] \in {-1, 1}

\* C8: in Conv2DFlipout and Conv1DFlipout every entry of the sampled
\* sign_input and sign_output is -1 or +1, and there is one sign per (example,
\* input channel) and one per (example, output filter), shared by all spatial
\* positions, for channels_first and for channels_last.
C8_SignsArePerExampleAndChannel ==
  (op \in FlipoutCalls /\ locals.sampled)
  => LET rank == Len(args.inputs.shape)
         batch == args.inputs.shape[1]
         channels == args.inputs.shape[ChannelAxis(layer.data_format, rank)]
     IN /\ IsSignTensor(locals.sign_input)
        /\ IsSignTensor(locals.sign_output)
        /\ locals.sign_input.shape =
             PerExampleChannelShape(layer.data_format, rank, batch, channels)
        /\ locals.sign_output.shape =
             PerExampleChannelShape(layer.data_format, rank, batch, layer.filters)

C8_Witness ==
  /\ op \in FlipoutCalls
  /\ locals.sampled
  /\ args.inputs.shape[1] = MaxBatch
  /\ Prod(locals.sign_input.shape) > MaxBatch
  /\ \E i, j \in Indices(locals.sign_input.shape) :
       locals.sign_input.data[i] = -1 /\ locals.sign_input.data[j] = 1
  /\ \E i, j \in Indices(locals.sign_output.shape) :
       locals.sign_output.data[i] = -1 /\ locals.sign_output.data[j] = 1

\* The sign of example b and channel c.
SignAt(t, data_format, b, c) ==
  IF data_format = "channels_first" THEN t.data[<<b, c, 0, 0>>] ELSE t.data[<<b, 0, 0, c>>]

\* new_kernel[i, j] = kernel[i, j] * local_scale[j] * global_scale for
\* example b; under Flipout the kernel of example b is the mean plus the
\* perturbation with that example's signs.
NewKernel(l, loc, b) ==
  LET kernel == l.weights.kernel
      flipped(i) == IF loc.sampled
                    THEN l.weights.kernel_mean.data[i]
                         + (kernel.data[i] - l.weights.kernel_mean.data[i])
                           * SignAt(loc.sign_input, l.data_format, b, i[3])
                           * SignAt(loc.sign_output, l.data_format, b, i[4])
                    ELSE kernel.data[i]
  IN Tensor(kernel.shape, [i \in Indices(kernel.shape) |->
       flipped(i) * l.weights.local_scale.data[<<i[4]>>] * l.weights.global_scale.data[<<>>]])

\* C9: for every call of Conv2DHierarchical, the output before the bias is
\* the convolution with new_kernel[i, j] = kernel[i, j] * local_scale[j] *
\* global_scale, whether or not the kernel is a random variable.
C9_ConvolvesWithNewKernel ==
  op = "Conv2DHierarchical.call"
  => \A b \in 0..(args.inputs.shape[1] - 1) :
       Example(locals.outputs, b) =
         Convolution(Example(args.inputs, b), NewKernel(layer, locals, b), layer.data_format)

\* C10: Conv2DVariationalDropout.call returns dropped_inputs() exactly when
\* the kernel is a random variable and the training flag, or the learning
\* phase when the flag is None, is true; in every other case it returns the
\* parent's ordinary convolution.
C10_DropoutOnlyWhenTraining ==
  op = "Conv2DVariationalDropout.call"
  => LET flag == IF args.training.given THEN args.training.value
                 ELSE args.learning_phase.value
     IN IF IsRandomVariable(layer) /\ flag
        THEN /\ locals.branch = "dropped_inputs"
             /\ ret.value = Conv2DVariationalDropout_dropped_inputs(layer, args.inputs)
        ELSE /\ locals.branch = "convolution"
             /\ ret.value = Conv2D_call(layer, args.inputs)

C10_Witness ==
  /\ op = "Conv2DVariationalDropout.call"
  /\ IsRandomVariable(layer)
  /\ ~args.training.given
  /\ args.learning_phase.value
  /\ ~args.learning_phase.static
  /\ locals.branch = "dropped_inputs"
  /\ args.inputs.shape[1] = MaxBatch

\* The sign of example b and channel c in a sign tensor of any rank.
SignOf(t, data_format, b, c) ==
  t.data[[k \in 1..Len(t.shape) |->
            IF k = 1 THEN b
            ELSE IF k = ChannelAxis(data_format, Len(t.shape)) THEN c ELSE 0]]

\* The kernel Flipout gives example b:
\* mean[c, f] + sign_input[b, c] * sign_output[b, f] * (kernel - mean)[c, f].
EffectiveKernel(l, loc, b) ==
  LET kernel == l.weights.kernel
      mean == l.weights.kernel_mean
      n == Len(kernel.shape)
  IN Tensor(kernel.shape, [i \in Indices(kernel.shape) |->
       mean.data[i] + SignOf(loc.sign_input, l.data_format, b, i[n - 1])
                      * SignOf(loc.sign_output, l.data_format, b, i[n])
                      * (kernel.data[i] - mean.data[i])])

Convolve(inputs, kernel, data_format) ==
  IF Len(inputs.shape) = 3 THEN Convolution1D(inputs, kernel, data_format)
  ELSE Convolution(inputs, kernel, data_format)

\* What _apply_kernel would return with every sign +1.
FlipWithOnes(l, inputs, loc) ==
  IF Len(inputs.shape) = 3
  THEN Conv1DFlipout_flip(l, inputs, l.convolution_op,
                          Ones(loc.sign_input.shape), Ones(loc.sign_output.shape))
  ELSE Conv2DFlipout_flip(l, inputs, l.convolution_op,
                          Ones(loc.sign_input.shape), Ones(loc.sign_output.shape))

\* C17: with a random-variable kernel, the output of Conv2DFlipout and
\* Conv1DFlipout before the bias is, for every example b, the convolution of
\* x_b with the effective kernel mean + sign_input[b] * sign_output[b] *
\* (kernel - mean); with every sign +1 it is the convolution with the
\* sampled kernel.
C17_FlipoutEffectiveKernel ==
  (op \in FlipoutCalls /\ locals.sampled)
  => /\ \A b \in 0..(args.inputs.shape[1] - 1) :
          Example(locals.outputs, b) =
            Convolve(Example(args.inputs, b), EffectiveKernel(layer, locals, b),
                     layer.data_format)
     /\ FlipWithOnes(layer, args.inputs, locals).outputs =
          Convolve(args.inputs, layer.weights.kernel, layer.data_format)

C17_Witness ==
  /\ op \in FlipoutCalls
  /\ locals.sampled
  /\ args.inputs.shape[1] = MaxBatch
  /\ \E i \in Indices(layer.weights.kernel.shape) :
       layer.weights.kernel.data[i] /= layer.weights.kernel_mean.data[i]
  /\ \E i \in Indices(locals.sign_output.shape) : locals.sign_output.data[i] = -1
  /\ \E i \in Indices(locals.sign_input.shape) : locals.sign_input.data[i] = -1
  /\ locals.outputs /= Convolve(args.inputs, layer.weights.kernel, layer.data_format)

\* The parent's call on the layer l, for one of the draws of the weights.
IsParentCall(l, inputs, value, called) ==
  \E seed \in Seeds :
    LET p == IF Len(inputs.shape) = 3 THEN Conv1DReparameterization_call(l, inputs, seed)
             ELSE Conv2DReparameterization_call(l, inputs, seed)
    IN value = p.value /\ called = p.layer

\* C18: when the kernel of a Conv2DFlipout or Conv1DFlipout layer is not a
\* random variable, call returns what the parent's call returns, samples no
\* sign tensor and leaves the cached convolution op as it was.
C18_PlainKernelCallsParent ==
  [][(op' \in FlipoutCalls /\ op' /= op /\ ~IsRandomVariable(layer))
       => /\ IsParentCall(layer, args'.inputs, ret'.value, layer')
          /\ ~locals'.sampled
          /\ DOMAIN locals' = {"sampled", "outputs"}
          /\ layer'.convolution_op = layer.convolution_op]_vars

C18_Witness ==
  /\ op \in FlipoutCalls
  /\ ~IsRandomVariable(layer)
  /\ ~locals.sampled
  /\ layer.convolution_op = "None"
  /\ args.inputs.shape[1] = MaxBatch
  /\ \E i \in Indices(ret.value.shape) : ret.value.data[i] /= 0

(***************************************************************************)
(* subsample/subsample-cifar10.py and subsample/subsample-cifar100.py.     *)
(*                                                                         *)
(* A row of a raw data set is known by its image: <<"train", k>> is the    *)
(* k-th image of the raw training set and <<"test", k>> the k-th image of  *)
(* the raw test set.  A DataFrame is its column names and its rows, a row  *)
(* being a record with one field per column.  A file is known by its path  *)
(* and holds the object that was pickled into it.                          *)
(***************************************************************************)
TrainSizes == {20, 30}
TestSizes == {10, 20}

\* frac=0.05, in hundredths.
frac == 5

\* Python's round of num / den: to the nearest integer, a tie to the even one.
round(num, den) ==
  LET q == num \div den
      r == num % den
  IN IF 2 * r > den \/ (2 * r = den /\ q % 2 = 1) THEN q + 1 ELSE q

\* zip of two lists: it stops with the shorter one.
Zip(a, b) ==
  [i \in 1..(IF Len(a) <= Len(b) THEN Len(a) ELSE Len(b)) |-> <<a[i], b[i]>>]

\* The raw training set is the five data batches one after the other.
Cifar10Raw(split, n) ==
  [labels |-> [k \in 1..n |-> k % 10],
   data |-> [k \in 1..n |-> <<split, k>>]]

Cifar100Raw(split, n) ==
  [fine_labels |-> [k \in 1..n |-> k % 100],
   coarse_labels |-> [k \in 1..n |-> k % 20],
   data |-> [k \in 1..n |-> <<split, k>>]]

\* Row positions drawn with replacement: a position may come twice.
DrawsWithReplacement(len) ==
  [1..round(frac * len, 100) -> 1..len]

\* The row positions DataFrame.sample(frac) may draw from len rows, in the
\* order drawn: round(frac * len) positions, none of them twice.
Draws(len) ==
  {s \in [1..round(frac * len, 100) -> 1..len] :
     \A i, j \in DOMAIN s : i /= j => s[i] /= s[j]}

sample(df, s) ==
  [columns |-> df.columns, rows |-> [i \in DOMAIN s |-> df.rows[s[i]]]]

subsample_cifar10(labels, images, s) ==
  LET pairs == Zip(images, labels)
      df == [columns |-> <<"image", "labels">>,
             rows |-> [i \in DOMAIN pairs |->
                         [image |-> pairs[i][1], labels |-> pairs[i][2]]]]
      val == sample(df, s)
  IN [X_train |-> [i \in DOMAIN val.rows |-> val.rows[i].image],
      y_train |-> [i \in DOMAIN val.rows |-> val.rows[i].labels],
      val |-> val]

subsample_cifar100(f_labels, c_labels, images, s) ==
  LET pairs == Zip(Zip(images, f_labels), c_labels)
      df == [columns |-> <<"image", "fine_labels", "coarse_labels">>,
             rows |-> [i \in DOMAIN pairs |->
                         [image |-> pairs[i][1][1],
                          fine_labels |-> pairs[i][1][2],
                          coarse_labels |-> pairs[i][2]]]]
      val == sample(df, s)
  IN [X_train |-> [i \in DOMAIN val.rows |-> val.rows[i].image],
      y_train |-> [i \in DOMAIN val.rows |-> val.rows[i].fine_labels],
      val |-> val]

\* DataFrame.to_pickle and the other writes: the file at path now holds obj.
WriteFile(fs, path, obj) ==
  [f \in DOMAIN fs \cup {path} |-> IF f = path THEN obj ELSE fs[f]]

subsample_main(script, train, test, tr, te) ==
  /\ op' = "subsample-" \o script \o ".main"
  /\ UNCHANGED layer
  /\ args' = [train |-> train, test |-> test]
  /\ locals' = [train_feat |-> tr.X_train, train_labels |-> tr.y_train, train_df |-> tr.val,
                test_feat |-> te.X_train, test_labels |-> te.y_train, test_df |-> te.val]
  /\ files' = WriteFile(WriteFile(files, "datasets/subsample/" \o script \o "/data", tr.val),
                        "datasets/subsample/" \o script \o "/train", te.val)
  /\ ret' = [status |-> "ok"]

subsample_cifar10_main ==
  /\ op = "none"
  /\ \E ntrain \in TrainSizes, ntest \in TestSizes :
       \E s1 \in Draws(ntrain), s2 \in Draws(ntest) :
         \E train \in {Cifar10Raw("train", ntrain)}, test \in {Cifar10Raw("test", ntest)} :
           subsample_main("cifar10", train, test,
                          subsample_cifar10(train.labels, train.data, s1),
                          subsample_cifar10(test.labels, test.data, s2))

subsample_cifar100_main ==
  /\ op = "none"
  /\ \E ntrain \in TrainSizes, ntest \in TestSizes :
       \E s1 \in Draws(ntrain), s2 \in Draws(ntest) :
         \E train \in {Cifar100Raw("train", ntrain)}, test \in {Cifar100Raw("test", ntest)} :
           subsample_main("cifar100", train, test,
                          subsample_cifar100(train.fine_labels, train.coarse_labels, train.data, s1),
                          subsample_cifar100(test.fine_labels, test.coarse_labels, test.data, s2))

(***************************************************************************)
(* subsample/tfds/cifar10/cifar10_dataset_builder.py.                      *)
(*                                                                         *)
(* A tar archive is a file holding its members by name.  A generator is    *)
(* the frame of _generate_examples: where it stands (pc), its local        *)
(* variables, and the examples it has yielded so far.                      *)
(***************************************************************************)
ImageSide == 2
Channels == 3

\* The number of fake examples of each split of the test case.
SPLITS == [train |-> 10, test |-> 3]
FakeSizes == {0, SPLITS.test, SPLITS.train}

PathJoin(dir, name) == dir \o "/" \o name

ManualDir(script) ==
  IF script = "subsample-cifar10.main" THEN "datasets/subsample/cifar10" ELSE "dummy_data"

FakeBatch(n) ==
  [images |-> [k \in 1..n |-> GenTensor(<<Channels * ImageSide * ImageSide>>, k)],
   labels |-> [k \in 1..n |-> (k * 7) % 10]]

\* The test case: manual_dir is the directory of fake examples.
Cifar10Test_dummy_data ==
  /\ op = "none"
  /\ \E ntrain \in FakeSizes, ntest \in FakeSizes :
       /\ op' = "Cifar10Test.dummy_data"
       /\ UNCHANGED layer
       /\ args' = [train |-> ntrain, test |-> ntest]
       /\ locals' = NoLocals
       /\ files' = WriteFile(files, PathJoin(ManualDir("Cifar10Test.dummy_data"), "cifar10.tar"),
                             [train_batch |-> FakeBatch(ntrain), test_batch |-> FakeBatch(ntest)])
       /\ ret' = [status |-> "ok"]

\* dl_manager.extract: the members of the archive become files of a
\* directory of their own.
Extract(fs, archive_path) ==
  [f \in DOMAIN fs \cup {PathJoin("extracted/" \o archive_path, member) :
                           member \in DOMAIN fs[archive_path]} |->
     IF f \in DOMAIN fs THEN fs[f]
     ELSE fs[archive_path][CHOOSE member \in DOMAIN fs[archive_path] :
                             f = PathJoin("extracted/" \o archive_path, member)]]

\* A call of the generator function: nothing of its body has run yet.
Generator(path, ex_type) ==
  [pc |-> "start", path |-> path, ex_type |-> ex_type, index |-> 0, taken |-> 0,
   ds_images |-> <<>>, ds_labels |-> <<>>, closed |-> FALSE, error |-> "None",
   yielded |-> <<>>]

Builder_split_generators ==
  /\ op \in {"subsample-cifar10.main", "Cifar10Test.dummy_data"}
  /\ \E archive_path \in {PathJoin(ManualDir(op), "cifar10.tar")} :
       /\ op' = "Builder._split_generators"
       /\ UNCHANGED layer
       /\ args' = [manual_dir |-> ManualDir(op)]
       /\ IF archive_path \notin DOMAIN files
          THEN /\ ret' = [status |-> "NotFoundError"]
               /\ locals' = NoLocals
               /\ UNCHANGED files
          ELSE /\ ret' = [status |-> "ok"]
               /\ files' = Extract(files, archive_path)
               /\ locals' =
                    [train |-> Generator(PathJoin("extracted/" \o archive_path, "train_batch"), "train"),
                     test |-> Generator(PathJoin("extracted/" \o archive_path, "test_batch"), "test")]

\* The body of the for loop up to its yield, or the end of the loop.
Builder_generate_examples_loop(g) ==
  LET pairs == Zip(g.ds_images, g.ds_labels)
  IN IF g.taken < Len(pairs)
     THEN LET img == pairs[g.taken + 1][1]
              label == pairs[g.taken + 1][2]
              record == [id |-> g.ex_type \o "_" \o ToString(g.index),
                         label |-> label,
                         image |-> Transpose(Reshape(img, <<Channels, ImageSide, ImageSide>>),
                                             <<1, 2, 0>>)]
          IN [g EXCEPT !.pc = "yield", !.taken = @ + 1,
                       !.yielded = Append(@, <<g.index, record>>)]
     ELSE [g EXCEPT !.pc = "done", !.closed = TRUE]

\* A generator that comes back from its yield with the index it had.
Builder_generate_examples_resume_same_index(g) == g

\* The generator comes back from its yield: index += 1.
Builder_generate_examples_resume(g) == [g EXCEPT !.index = @ + 1]

\* One next() of the generator g: from its start, or from its last yield.
Builder_generate_examples_next(g, fs) ==
  IF g.pc = "start"
  THEN IF g.path \notin DOMAIN fs
       THEN [g EXCEPT !.pc = "raised", !.error = "FileNotFoundError"]
       ELSE LET ds == fs[g.path]
            IN IF ~ ({"images", "labels"} \subseteq DOMAIN ds)
               THEN [g EXCEPT !.pc = "raised", !.error = "KeyError"]
               ELSE Builder_generate_examples_loop(
                      [g EXCEPT !.index = 0, !.ds_images = ds.images, !.ds_labels = ds.labels])
  ELSE Builder_generate_examples_loop(Builder_generate_examples_resume(g))

Builder_generate_examples ==
  /\ op \in {"Builder._split_generators", "Builder._generate_examples"}
  /\ "train" \in DOMAIN locals
  /\ \E split \in DOMAIN locals :
       /\ locals[split].pc \in {"start", "yield"}
       /\ \E g \in {Builder_generate_examples_next(locals[split], files)} :
            /\ op' = "Builder._generate_examples"
            /\ UNCHANGED layer
            /\ UNCHANGED files
            /\ args' = [path |-> g.path, ex_type |-> g.ex_type]
            /\ locals' = [locals EXCEPT ![split] = g]
            /\ ret' = IF g.pc = "yield" THEN [status |-> "ok", value |-> g.yielded[Len(g.yielded)]]
                      ELSE IF g.pc = "done" THEN [status |-> "StopIteration"]
                      ELSE [status |-> g.error]

NextSubsample ==
  \/ subsample_cifar10_main
  \/ subsample_cifar100_main
  \/ Cifar10Test_dummy_data
  \/ Builder_split_generators
  \/ Builder_generate_examples

SpecSubsample == Init /\ [][NextSubsample]_vars

(***************************************************************************)
(* Properties of the subsample scripts and of the dataset builder.         *)
(***************************************************************************)
\* The rows of df are 5% of the rows of raw (the nearest whole number of
\* rows, which is exactly 5% when that is a whole number), each of them a
\* row of raw, and no row of raw is there twice.
IsSubsampleOf(df, raw) ==
  LET n == Len(raw.data)
      rows == df.rows
  IN /\ ((frac * n) % 100 = 0 => 100 * Len(rows) = frac * n)
     /\ 100 * Len(rows) - frac * n \in (0 - 50)..50
     /\ \A i \in DOMAIN rows : \E k \in 1..n : rows[i].image = raw.data[k]
     /\ \A i, j \in DOMAIN rows : i /= j => rows[i].image /= rows[j].image

\* C11: the CIFAR-10 subsample is a 5% subsample: subsample() of N rows
\* returns 0.05 * N rows, each source row at most once; 50000 training rows
\* give 2500 rows and 10000 test rows give 500 rows.
C11_SubsampleIsFivePercent ==
  /\ round(frac * 50000, 100) = 2500
  /\ round(frac * 10000, 100) = 500
  /\ op = "subsample-cifar10.main" =>
       /\ IsSubsampleOf(locals.train_df, args.train)
       /\ IsSubsampleOf(locals.test_df, args.test)
       /\ Len(locals.train_feat) = Len(locals.train_df.rows)
       /\ Len(locals.test_feat) = Len(locals.test_df.rows)

C11_Witness ==
  /\ op = "subsample-cifar10.main"
  /\ Len(args.train.data) = 30
  /\ Len(locals.train_df.rows) = 2
  /\ Len(args.test.data) = 20
  /\ Len(locals.test_df.rows) = 1

\* C12: the output of subsample-cifar10.py is what the Builder consumes:
\* run over the directory the script wrote, _split_generators finds the
\* archive cifar10.tar and its members train_batch and test_batch, each a
\* mapping with the keys 'images' and 'labels'.
C12_BuilderConsumesScriptOutput ==
  (op = "Builder._split_generators" /\ args.manual_dir = ManualDir("subsample-cifar10.main")) =>
    /\ ret.status = "ok"
    /\ \A split \in DOMAIN locals :
         /\ locals[split].path \in DOMAIN files
         /\ {"images", "labels"} \subseteq DOMAIN files[locals[split].path]

\* C13: in both subsample scripts the file named 'train' holds rows of the
\* raw training set, and the training and the test subsample are written
\* to two different files.
C13_TrainFileHoldsTrainingRows ==
  \A script \in {"cifar10", "cifar100"} :
    op = "subsample-" \o script \o ".main" =>
      LET train_file == files["datasets/subsample/" \o script \o "/train"]
      IN /\ \A i \in DOMAIN train_file.rows : train_file.rows[i].image[1] = "train"
         /\ \E p, q \in DOMAIN files :
              p /= q /\ files[p] = locals.train_df /\ files[q] = locals.test_df

\* The image of a record: entry (h, w, c) is entry c * side * side + h * side + w
\* of the stored row.
IsImageOf(image, img) ==
  /\ image.shape = <<ImageSide, ImageSide, Channels>>
  /\ \A h, w \in 0..(ImageSide - 1), c \in 0..(Channels - 1) :
       image.data[<<h, w, c>>] = img.data[<<c * ImageSide * ImageSide + h * ImageSide + w>>]

IsExampleOf(example, ex_type, ds, i) ==
  /\ example[1] = i - 1
  /\ example[2].id = ex_type \o "_" \o ToString(i - 1)
  /\ example[2].label = ds.labels[i]
  /\ IsImageOf(example[2].image, ds.images[i])

\* C14: for each split, _generate_examples yields exactly one example per
\* stored (image, label) pair, in stored order: the i-th example it yields
\* is the i-th pair, and when it has finished a file of n images and n
\* labels it has yielded n examples.
C14_OneExamplePerPair ==
  (op \in {"Builder._split_generators", "Builder._generate_examples"} /\ ret.status /= "NotFoundError") =>
    \A split \in DOMAIN locals :
      LET g == locals[split]
          ds == files[g.path]
      IN /\ g.pc \in {"start", "yield", "done"}
         /\ Len(g.yielded) <= Len(ds.images)
         /\ \A i \in DOMAIN g.yielded : IsExampleOf(g.yielded[i], split, ds, i)
         /\ g.pc = "done" => Len(g.yielded) = Len(ds.images)
         /\ (op = "Builder._generate_examples" /\ args.ex_type = split /\ g.pc = "yield") =>
              ret.value = g.yielded[Len(g.yielded)]

C14_Witness ==
  /\ op = "Builder._generate_examples"
  /\ locals.train.pc = "done"
  /\ Len(locals.train.yielded) = SPLITS.train
  /\ locals.test.pc = "done"
  /\ Len(locals.test.yielded) = SPLITS.test

(***************************************************************************)
(* The launch scripts: train/cifar10.py, train/cifar100.py,                *)
(* train/cifarN.py, train/clothing1m.py, train/webvision.py and            *)
(* main_train.py.                                                          *)
(*                                                                         *)
(* The body of a main() is the sequence of its statements after the        *)
(* assignments: a print, a subprocess.call with its positional arguments,  *)
(* or an exec of a file with a dictionary of globals.  A float is written  *)
(* in hundredths (0.2 is 20).  A run of a script is followed statement by  *)
(* statement: locals holds the position in main (pc), what was printed     *)
(* (stdout), every subprocess.call or exec that was made with the header   *)
(* printed last before it (calls), and those of them that went on to start *)
(* a run (launched).                                                       *)
(***************************************************************************)
print(text) == [stmt |-> "print", text |-> text]
SubprocessCall(popenargs) == [stmt |-> "subprocess.call", args |-> popenargs]
Exec(path, globals) == [stmt |-> "exec", path |-> path, args |-> globals]

\* train/cifar10.py, main: its statements after the assignments.
train_cifar10_main(DATA_DIR, OUT_DIR, SRC_DIR, CP_INTERVAL) ==
  <<print("############# CIFAR-10 TESTS ################"),
    print("============= NO NOISE =============="),
    SubprocessCall(<<PathJoin(SRC_DIR, "cifar/sgn.py"),
        "--data_dir=" \o DATA_DIR \o "/cifar10",
        "--output_dir=" \o OUT_DIR \o "/cifar10/no_noise",
        "--dataset cifar10",
        "--checkpoint_interval=" \o CP_INTERVAL>>),
    print("============= SYM 20 =============="),
    SubprocessCall(<<PathJoin(SRC_DIR, "cifar/sgn.py"),
        "--data_dir=" \o DATA_DIR \o "/cifar10",
        "--output_dir=" \o OUT_DIR \o "/cifar10/sym20",
        "--dataset cifar10",
        "--noisy_labels",
        "--corruption_type sym",
        "--severity 0.2",
        "--checkpoint_interval=" \o CP_INTERVAL>>),
    print("============= SYM 40 =============="),
    SubprocessCall(<<PathJoin(SRC_DIR, "cifar/sgn.py"),
        "--data_dir=" \o DATA_DIR \o "/cifar10",
        "--output_dir=" \o OUT_DIR \o "/cifar10/sym40",
        "--dataset cifar10",
        "--noisy_labels",
        "--corruption_type sym",
        "--severity 0.4",
        "--checkpoint_interval=" \o CP_INTERVAL>>),
    print("============= SYM 60 =============="),
    SubprocessCall(<<PathJoin(SRC_DIR, "cifar/sgn.py"),
        "--data_dir=" \o DATA_DIR \o "/cifar10",
        "--output_dir=" \o OUT_DIR \o "/cifar10/sym60",
        "--dataset cifar10",
        "--noisy_labels",
        "--corruption_type sym",
        "--severity 0.6",
        "--checkpoint_interval=" \o CP_INTERVAL>>),
    print("============= ASYM 20 =============="),
    SubprocessCall(<<PathJoin(SRC_DIR, "cifar/sgn.py"),
        "--data_dir=" \o DATA_DIR \o "/cifar10",
        "--output_dir=" \o OUT_DIR \o "/cifar10/asym20",
        "--dataset cifar10",
        "--noisy_labels",
        "--corruption_type asym",
        "--severity 0.2",
        "--checkpoint_interval=" \o CP_INTERVAL>>),
    print("============= ASYM 40 =============="),
    SubprocessCall(<<PathJoin(SRC_DIR, "cifar/sgn.py"),
        "--data_dir=" \o DATA_DIR \o "/cifar10",
        "--output_dir=" \o OUT_DIR \o "/cifar10/asym40",
        "--dataset cifar10",
        "--noisy_labels",
        "--corruption_type asym",
        "--severity 0.4",
        "--checkpoint_interval=" \o CP_INTERVAL>>),
    print("============= ASYM 60 =============="),
    SubprocessCall(<<PathJoin(SRC_DIR, "cifar/sgn.py"),
        "--data_dir=" \o DATA_DIR \o "/cifar10",
        "--output_dir=" \o OUT_DIR \o "/cifar10/asym60",
        "--dataset cifar10",
        "--noisy_labels",
        "--corruption_type asym",
        "--severity 0.6",
        "--checkpoint_interval=" \o CP_INTERVAL>>)>>

\* train/cifar100.py, main.
train_cifar100_main(DATA_DIR, OUT_DIR, SRC_DIR, CP_INTERVAL) ==
  <<print("############# CIFAR-100 TESTS ################"),
    print("============= NO NOISE =============="),
    SubprocessCall(<<PathJoin(SRC_DIR, "cifar/sgn.py"),
        "--data_dir=" \o DATA_DIR \o "/cifar100",
        "--output_dir=" \o OUT_DIR \o "/cifar100/no_noise",
        "--dataset cifar100",
        "--checkpoint_interval=" \o CP_INTERVAL>>),
    print("============= SYM 20 =============="),
    SubprocessCall(<<PathJoin(SRC_DIR, "cifar/sgn.py"),
        "--data_dir=" \o DATA_DIR \o "/cifar100",
        "--output_dir=" \o OUT_DIR \o "/cifar100/sym20",
        "--dataset cifar100",
        "--noisy_labels",
        "--corruption_type sym",
        "--severity 0.2",
        "--checkpoint_interval=" \o CP_INTERVAL>>),
    print("============= SYM 40 =============="),
    SubprocessCall(<<PathJoin(SRC_DIR, "cifar/sgn.py"),
        "--data_dir=" \o DATA_DIR \o "/cifar100",
        "--output_dir=" \o OUT_DIR \o "/cifar100/sym40",
        "--dataset cifar100",
        "--noisy_labels",
        "--corruption_type sym",
        "--severity 0.4",
        "--checkpoint_interval=" \o CP_INTERVAL>>),
    print("============= SYM 60 =============="),
    SubprocessCall(<<PathJoin(SRC_DIR, "cifar/sgn.py"),
        "--data_dir=" \o DATA_DIR \o "/cifar100",
        "--output_dir=" \o OUT_DIR \o "/cifar100/sym60",
        "--dataset cifar100",
        "--noisy_labels",
        "--corruption_type sym",
        "--severity 0.6",
        "--checkpoint_interval=" \o CP_INTERVAL>>),
    print("============= ASYM 20 =============="),
    SubprocessCall(<<PathJoin(SRC_DIR, "cifar/sgn.py"),
        "--data_dir=" \o DATA_DIR \o "/cifar100",
        "--output_dir=" \o OUT_DIR \o "/cifar100/asym20",
        "--dataset cifar100",
        "--noisy_labels",
        "--corruption_type asym",
        "--severity 0.2",
        "--checkpoint_interval=" \o CP_INTERVAL>>),
    print("============= ASYM 40 =============="),
    SubprocessCall(<<PathJoin(SRC_DIR, "cifar/sgn.py"),
        "--data_dir=" \o DATA_DIR \o "/cifar100",
        "--output_dir=" \o OUT_DIR \o "/cifar100/asym40",
        "--dataset cifar100",
        "--noisy_labels",
        "--corruption_type asym",
        "--severity 0.4",
        "--checkpoint_interval=" \o CP_INTERVAL>>),
    print("============= ASYM 60 =============="),
    SubprocessCall(<<PathJoin(SRC_DIR, "cifar/sgn.py"),
        "--data_dir=" \o DATA_DIR \o "/cifar100",
        "--output_dir=" \o OUT_DIR \o "/cifar100/asym60",
        "--dataset cifar100",
        "--noisy_labels",
        "--corruption_type asym",
        "--severity 0.6",
        "--checkpoint_interval=" \o CP_INTERVAL>>)>>

\* train/cifarN.py, main.
train_cifarN_main(DATA_DIR, OUT_DIR, SRC_DIR, CP_INTERVAL) ==
  <<print("############# CIFAR-N TESTS ################"),
    print("============= 10N AGGREGATE =============="),
    SubprocessCall(<<PathJoin(SRC_DIR, "cifar/sgn.py"),
        "--data_dir=" \o DATA_DIR \o "/cifarN",
        "--output_dir=" \o OUT_DIR \o "/cifarN/aggre",
        "--dataset cifar10_label_corrupted",
        "--noisy_labels",
        "--corruption_type aggre",
        "--checkpoint_interval=" \o CP_INTERVAL>>),
    print("============= 10N RANDOM 1 =============="),
    SubprocessCall(<<PathJoin(SRC_DIR, "cifar/sgn.py"),
        "--data_dir=" \o DATA_DIR \o "/cifarN",
        "--output_dir=" \o OUT_DIR \o "/cifarN/rand1",
        "--dataset cifar10_label_corrupted",
        "--noisy_labels",
        "--corruption_type rand1",
        "--checkpoint_interval=" \o CP_INTERVAL>>),
    print("============= 10N RANDOM 2 =============="),
    SubprocessCall(<<PathJoin(SRC_DIR, "cifar/sgn.py"),
        "--data_dir=" \o DATA_DIR \o "/cifarN",
        "--output_dir=" \o OUT_DIR \o "/cifarN/rand2",
        "--dataset cifar10_label_corrupted",
        "--noisy_labels",
        "--corruption_type rand2",
        "--checkpoint_interval=" \o CP_INTERVAL>>),
    print("============= 10N RANDOM 3 =============="),
    SubprocessCall(<<PathJoin(SRC_DIR, "cifar/sgn.py"),
        "--data_dir=" \o DATA_DIR \o "/cifarN",
        "--output_dir=" \o OUT_DIR \o "/cifarN/rand3",
        "--dataset cifar10_label_corrupted",
        "--noisy_labels",
        "--corruption_type rand3",
        "--checkpoint_interval=" \o CP_INTERVAL>>),
    print("============= 10N WORST =============="),
    SubprocessCall(<<PathJoin(SRC_DIR, "cifar/sgn.py"),
        "--data_dir=" \o DATA_DIR \o "/cifarN",
        "--output_dir=" \o OUT_DIR \o "/cifarN/worst",
        "--dataset cifar10_label_corrupted",
        "--noisy_labels",
        "--corruption_type worst",
        "--checkpoint_interval=" \o CP_INTERVAL>>),
    print("============= CIFAR-100N =============="),
    SubprocessCall(<<PathJoin(SRC_DIR, "cifar/sgn.py"),
        "--data_dir=" \o DATA_DIR \o "/cifarN",
        "--output_dir=" \o OUT_DIR \o "/cifarN/c100n",
        "--dataset cifar10_label_corrupted",
        "--noisy_labels",
        "--corruption_type c100noise",
        "--checkpoint_interval=" \o CP_INTERVAL>>)>>

\* train/clothing1m.py, main.
train_clothing1m_main(DATA_DIR, OUT_DIR, SRC_DIR, CP_INTERVAL) ==
  <<print("############# CLOTHING-1M ################"),
    SubprocessCall(<<PathJoin(SRC_DIR, "clothing1m/sgn.py"),
        "--data_dir=" \o DATA_DIR \o "/clothing1m",
        "--output_dir=" \o OUT_DIR \o "/clothing1m",
        "--checkpoint_interval=" \o CP_INTERVAL>>)>>

\* train/webvision.py, main.
train_webvision_main(DATA_DIR, OUT_DIR, SRC_DIR, CP_INTERVAL) ==
  <<print("############# WEBVISION ################"),
    SubprocessCall(<<PathJoin(SRC_DIR, "webvision/sgn.py"),
        "--data_dir: " \o DATA_DIR \o "/webvision",
        "--output_dir: " \o OUT_DIR \o "/webvision",
        "--checkpoint_interval: " \o CP_INTERVAL>>)>>

\* main_train.py, main.
main_train_main ==
  LET DATA_DIR == "./data"
      OUT_DIR == "./out"
      SRC_DIR == "./src"
      CP_INTERVAL == 10
  IN
  <<print("############# CIFAR-10 TESTS ################"),
    print("============= NO NOISE =============="),
    Exec(SRC_DIR \o "/cifar/sgn.py",
        "--data_dir" :> DATA_DIR \o "/cifar10" @@
        "--output_dir" :> OUT_DIR \o "/cifar10/no_noise" @@
        "--dataset" :> "cifar10" @@
        "--checkpoint_interval" :> CP_INTERVAL),
    print("============= SYM 20 =============="),
    Exec(SRC_DIR \o "/cifar/sgn.py",
        "--data_dir" :> DATA_DIR \o "/cifar10" @@
        "--output_dir" :> OUT_DIR \o "/cifar10/sym20" @@
        "--dataset" :> "cifar10" @@
        "--noisy_labels " :> "" @@
        "--corruption_type" :> "sym" @@
        "--severity" :> 20 @@
        "--checkpoint_interval" :> CP_INTERVAL),
    print("============= SYM 40 =============="),
    Exec(SRC_DIR \o "/cifar/sgn.py",
        "--data_dir" :> DATA_DIR \o "/cifar10" @@
        "--output_dir" :> OUT_DIR \o "/cifar10/sym40" @@
        "--dataset" :> "cifar10" @@
        "--noisy_labels " :> "" @@
        "--corruption_type" :> "sym" @@
        "--severity" :> 40 @@
        "--checkpoint_interval" :> CP_INTERVAL),
    print("============= SYM 60 =============="),
    Exec(SRC_DIR \o "/cifar/sgn.py",
        "--data_dir" :> DATA_DIR \o "/cifar10" @@
        "--output_dir" :> OUT_DIR \o "/cifar10/sym60" @@
        "--dataset" :> "cifar10" @@
        "--noisy_labels " :> "" @@
        "--corruption_type" :> "sym" @@
        "--severity" :> 60 @@
        "--checkpoint_interval" :> CP_INTERVAL),
    print("============= ASYM 20 =============="),
    Exec(SRC_DIR \o "/cifar/sgn.py",
        "--data_dir" :> DATA_DIR \o "/cifar10" @@
        "--output_dir" :> OUT_DIR \o "/cifar10/sym20" @@
        "--dataset" :> "cifar10" @@
        "--noisy_labels " :> "" @@
        "--corruption_type" :> "sym" @@
        "--severity" :> 20 @@
        "--checkpoint_interval" :> CP_INTERVAL),
    print("============= ASYM 40 =============="),
    Exec(SRC_DIR \o "/cifar/sgn.py",
        "--data_dir" :> DATA_DIR \o "/cifar10" @@
        "--output_dir" :> OUT_DIR \o "/cifar10/sym20" @@
        "--dataset" :> "cifar10" @@
        "--noisy_labels " :> "" @@
        "--corruption_type" :> "sym" @@
        "--severity" :> 20 @@
        "--checkpoint_interval" :> CP_INTERVAL),
    print("============= ASYM 60 =============="),
    Exec(SRC_DIR \o "/cifar/sgn.py",
        "--data_dir" :> DATA_DIR \o "/cifar10" @@
        "--output_dir" :> OUT_DIR \o "/cifar10/sym20" @@
        "--dataset" :> "cifar10" @@
        "--noisy_labels " :> "" @@
        "--corruption_type" :> "sym" @@
        "--severity" :> 20 @@
        "--checkpoint_interval" :> CP_INTERVAL),
    print("############# CIFAR-100 TESTS ################"),
    print("============= NO NOISE =============="),
    Exec(SRC_DIR \o "/cifar/sgn.py",
        "--data_dir" :> DATA_DIR \o "/cifar100" @@
        "--output_dir" :> OUT_DIR \o "/cifar100/no_noise" @@
        "--dataset" :> "cifar100" @@
        "--checkpoint_interval" :> CP_INTERVAL),
    print("============= SYM 20 =============="),
    Exec(SRC_DIR \o "/cifar/sgn.py",
        "--data_dir" :> DATA_DIR \o "/cifar100" @@
        "--output_dir" :> OUT_DIR \o "/cifar100/sym20" @@
        "--dataset" :> "cifar100" @@
        "--noisy_labels " :> "" @@
        "--corruption_type" :> "sym" @@
        "--severity" :> 20 @@
        "--checkpoint_interval" :> CP_INTERVAL),
    print("============= SYM 40 =============="),
    Exec(SRC_DIR \o "/cifar/sgn.py",
        "--data_dir" :> DATA_DIR \o "/cifar100" @@
        "--output_dir" :> OUT_DIR \o "/cifar100/sym40" @@
        "--dataset" :> "cifar100" @@
        "--noisy_labels " :> "" @@
        "--corruption_type" :> "sym" @@
        "--severity" :> 40 @@
        "--checkpoint_interval" :> CP_INTERVAL),
    print("============= SYM 60 =============="),
    Exec(SRC_DIR \o "/cifar/sgn.py",
        "--data_dir" :> DATA_DIR \o "/cifar100" @@
        "--output_dir" :> OUT_DIR \o "/cifar100/sym60" @@
        "--dataset" :> "cifar100" @@
        "--noisy_labels " :> "" @@
        "--corruption_type" :> "sym" @@
        "--severity" :> 60 @@
        "--checkpoint_interval" :> CP_INTERVAL),
    print("============= ASYM 20 =============="),
    Exec(SRC_DIR \o "/cifar/sgn.py",
        "--data_dir" :> DATA_DIR \o "/cifar100" @@
        "--output_dir" :> OUT_DIR \o "/cifar100/asym20" @@
        "--dataset" :> "cifar100" @@
        "--noisy_labels " :> "" @@
        "--corruption_type" :> "asym" @@
        "--severity" :> 20 @@
        "--checkpoint_interval" :> CP_INTERVAL),
    print("============= ASYM 40 =============="),
    Exec(SRC_DIR \o "/cifar/sgn.py",
        "--data_dir" :> DATA_DIR \o "/cifar100" @@
        "--output_dir" :> OUT_DIR \o "/cifar100/asym40" @@
        "--dataset" :> "cifar100" @@
        "--noisy_labels " :> "" @@
        "--corruption_type" :> "asym" @@
        "--severity" :> 40 @@
        "--checkpoint_interval" :> CP_INTERVAL),
    print("============= ASYM 60 =============="),
    Exec(SRC_DIR \o "/cifar/sgn.py",
        "--data_dir" :> DATA_DIR \o "/cifar100" @@
        "--output_dir" :> OUT_DIR \o "/cifar100/asym20" @@
        "--dataset" :> "cifar100" @@
        "--noisy_labels " :> "" @@
        "--corruption_type" :> "asym" @@
        "--severity" :> 60 @@
        "--checkpoint_interval" :> CP_INTERVAL),
    print("############# CIFAR-N TESTS ################"),
    print("============= 10N AGGREGATE =============="),
    Exec(SRC_DIR \o "/cifar/sgn.py",
        "--data_dir" :> DATA_DIR \o "/cifarN" @@
        "--output_dir" :> OUT_DIR \o "/cifarN/aggre" @@
        "--dataset" :> "cifar10_label_corrupted" @@
        "--checkpoint_interval" :> CP_INTERVAL),
    print("============= 10N RANDOM 1 =============="),
    Exec(SRC_DIR \o "/cifar/sgn.py",
        "--data_dir" :> DATA_DIR \o "/cifarN" @@
        "--output_dir" :> OUT_DIR \o "/cifarN/rand1" @@
        "--dataset" :> "cifar10_label_corrupted" @@
        "--corruption_type" :> "rand1" @@
        "--checkpoint_interval" :> CP_INTERVAL),
    print("============= 10N RANDOM 2 =============="),
    Exec(SRC_DIR \o "/cifar/sgn.py",
        "--data_dir" :> DATA_DIR \o "/cifarN" @@
        "--output_dir" :> OUT_DIR \o "/cifarN/rand2" @@
        "--dataset" :> "cifar10_label_corrupted" @@
        "--corruption_type" :> "rand2" @@
        "--checkpoint_interval" :> CP_INTERVAL),
    print("============= 10N RANDOM 3 =============="),
    Exec(SRC_DIR \o "/cifar/sgn.py",
        "--data_dir" :> DATA_DIR \o "/cifarN" @@
        "--output_dir" :> OUT_DIR \o "/cifarN/rand3" @@
        "--dataset" :> "cifar10_label_corrupted" @@
        "--corruption_type" :> "rand3" @@
        "--checkpoint_interval" :> CP_INTERVAL),
    print("============= 10N WORST =============="),
    Exec(SRC_DIR \o "/cifar/sgn.py",
        "--data_dir" :> DATA_DIR \o "/cifarN" @@
        "--output_dir" :> OUT_DIR \o "/cifarN/worst" @@
        "--dataset" :> "cifar10_label_corrupted" @@
        "--corruption_type" :> "rand3" @@
        "--checkpoint_interval" :> CP_INTERVAL),
    print("============= CIFAR-100N =============="),
    Exec(SRC_DIR \o "/cifar/sgn.py",
        "--data_dir" :> DATA_DIR \o "/cifarN" @@
        "--output_dir" :> OUT_DIR \o "/cifarN/c100n" @@
        "--dataset" :> "cifar100" @@
        "--corruption_type" :> "c100noise" @@
        "--checkpoint_interval" :> CP_INTERVAL),
    print("############# CLOTHING-1M ################"),
    Exec(SRC_DIR \o "/clothing1m/sgn.py",
        "--data_dir" :> DATA_DIR \o "/clothing1m" @@
        "--output_dir" :> OUT_DIR \o "/clothing1m" @@
        "--checkpoint_interval" :> CP_INTERVAL),
    print("############# WEBVISION ################"),
    Exec(SRC_DIR \o "/webvision/sgn.py",
        "--data_dir" :> DATA_DIR \o "/webvision" @@
        "--output_dir" :> OUT_DIR \o "/webvision" @@
        "--checkpoint_interval" :> CP_INTERVAL)>>


TrainScripts ==
  {"train/cifar10.py", "train/cifar100.py", "train/cifarN.py", "train/clothing1m.py",
   "train/webvision.py"}
Scripts == TrainScripts \cup {"main_train.py"}

DataDirs == {"./data", "/data"}
OutDirs == {"./out", "/out"}
Intervals == {"1", "10"}

\* What the module does after its definitions when it is run as a program:
\* the body of its if __name__ == '__main__', if it has one.
MainGuard(script) ==
  CASE script = "train/cifar10.py" -> "pass"
    [] script \in {"train/cifar100.py", "train/cifarN.py", "train/clothing1m.py"} -> "main()"
    [] OTHER -> "none"

\* SRC_DIR = path.join(path.abspath(path.dirname(__file__)), '..', 'src')
SrcDir(script) == PathJoin(PathJoin("train", ".."), "src")

\* The statements of main() of script, with sys.argv[1..3] = argv.
Statements(script, argv) ==
  CASE script = "train/cifar10.py" -> train_cifar10_main(argv[1], argv[2], SrcDir(script), argv[3])
    [] script = "train/cifar100.py" -> train_cifar100_main(argv[1], argv[2], SrcDir(script), argv[3])
    [] script = "train/cifarN.py" -> train_cifarN_main(argv[1], argv[2], SrcDir(script), argv[3])
    [] script = "train/clothing1m.py" -> train_clothing1m_main(argv[1], argv[2], SrcDir(script), argv[3])
    [] script = "train/webvision.py" -> train_webvision_main(argv[1], argv[2], SrcDir(script), argv[3])
    [] OTHER -> main_train_main

\* subprocess.call(*popenargs) is Popen(args, bufsize, executable, ...):
\* a second positional argument is taken as bufsize, and Popen raises
\* TypeError when bufsize is not an integer.
subprocess_call(popenargs) ==
  IF Len(popenargs) >= 2 /\ popenargs[2] \in STRING THEN "TypeError" ELSE "ok"

Frame(running) ==
  [pc |-> 1, main_called |-> running, stdout |-> <<>>, calls |-> <<>>, launched |-> <<>>]

\* python <script> <DATA_DIR> <OUT_DIR> <CP_INTERVAL>
python_script ==
  /\ op = "none"
  /\ \E script \in Scripts, DATA_DIR \in DataDirs, OUT_DIR \in OutDirs, CP_INTERVAL \in Intervals :
       /\ op' = "python"
       /\ UNCHANGED layer
       /\ UNCHANGED files
       /\ args' = [script |-> script, argv |-> <<DATA_DIR, OUT_DIR, CP_INTERVAL>>, entry |-> "program"]
       /\ locals' = Frame(MainGuard(script) = "main()")
       /\ ret' = [status |-> IF MainGuard(script) = "main()" THEN "running" ELSE "exit"]

\* A caller imports the module and calls its main().
import_main ==
  /\ op = "none"
  /\ \E script \in Scripts, DATA_DIR \in DataDirs, OUT_DIR \in OutDirs, CP_INTERVAL \in Intervals :
       /\ op' = "main"
       /\ UNCHANGED layer
       /\ UNCHANGED files
       /\ args' = [script |-> script, argv |-> <<DATA_DIR, OUT_DIR, CP_INTERVAL>>, entry |-> "main"]
       /\ locals' = Frame(TRUE)
       /\ ret' = [status |-> "running"]

LaunchOps == {"python", "main", "print", "subprocess.call", "exec", "return"}

Running == op \in LaunchOps /\ ret.status = "running"

AtStatement(kind) ==
  /\ Running
  /\ locals.pc <= Len(Statements(args.script, args.argv))
  /\ Statements(args.script, args.argv)[locals.pc].stmt = kind

Header(stdout) == IF stdout = <<>> THEN "" ELSE stdout[Len(stdout)]

main_print ==
  /\ AtStatement("print")
  /\ \E s \in {Statements(args.script, args.argv)[locals.pc]} :
       /\ op' = "print"
       /\ UNCHANGED layer
       /\ UNCHANGED files
       /\ UNCHANGED args
       /\ locals' = [locals EXCEPT !.pc = @ + 1, !.stdout = Append(@, s.text)]
       /\ ret' = ret

main_subprocess_call ==
  /\ AtStatement("subprocess.call")
  /\ \E s \in {Statements(args.script, args.argv)[locals.pc]} :
       /\ op' = "subprocess.call"
       /\ UNCHANGED layer
       /\ UNCHANGED files
       /\ UNCHANGED args
       /\ IF subprocess_call(s.args) = "ok"
          THEN /\ locals' = [locals EXCEPT !.pc = @ + 1,
                               !.calls = Append(@, [header |-> Header(locals.stdout), args |-> s.args]),
                               !.launched = Append(@, s.args)]
               /\ ret' = ret
          ELSE /\ locals' = [locals EXCEPT
                               !.calls = Append(@, [header |-> Header(locals.stdout), args |-> s.args])]
               /\ ret' = [status |-> subprocess_call(s.args)]

\* exec(open(PATH).read(), globals): the file that is run is not part of
\* the script; it returns or it raises.
main_exec ==
  /\ AtStatement("exec")
  /\ \E s \in {Statements(args.script, args.argv)[locals.pc]}, raises \in BOOLEAN :
       /\ op' = "exec"
       /\ UNCHANGED layer
       /\ UNCHANGED files
       /\ UNCHANGED args
       /\ IF raises
          THEN /\ locals' = [locals EXCEPT
                               !.calls = Append(@, [header |-> Header(locals.stdout), args |-> s.args])]
               /\ ret' = [status |-> "raised"]
          ELSE /\ locals' = [locals EXCEPT !.pc = @ + 1,
                               !.calls = Append(@, [header |-> Header(locals.stdout), args |-> s.args]),
                               !.launched = Append(@, s.args)]
               /\ ret' = ret

main_return ==
  /\ Running
  /\ locals.pc = Len(Statements(args.script, args.argv)) + 1
  /\ op' = "return"
  /\ UNCHANGED layer
  /\ UNCHANGED files
  /\ UNCHANGED args
  /\ UNCHANGED locals
  /\ ret' = [status |-> "exit"]

NextLaunch ==
  \/ python_script
  \/ import_main
  \/ main_print
  \/ main_subprocess_call
  \/ main_exec
  \/ main_return

SpecLaunch == Init /\ [][NextLaunch]_vars

\* A started program runs its statements one after the other: no statement
\* that can run waits for ever.
FairLaunch ==
  /\ SpecLaunch
  /\ WF_vars(main_print)
  /\ WF_vars(main_subprocess_call)
  /\ WF_vars(main_exec)
  /\ WF_vars(main_return)

(***************************************************************************)
(* Properties of the launch scripts.                                       *)
(***************************************************************************)
IsLaunch(s) == s.stmt \in {"subprocess.call", "exec"}

\* The runs a main() lists, each with the header printed last before it.
Runs(statements) ==
  LET HeaderAt(i) == Header([k \in 1..Len(SelectSeq(SubSeq(statements, 1, i), LAMBDA s : ~IsLaunch(s))) |->
                               SelectSeq(SubSeq(statements, 1, i), LAMBDA s : ~IsLaunch(s))[k].text])
      at == {i \in DOMAIN statements : IsLaunch(statements[i])}
      nth(n) == CHOOSE i \in at : Cardinality({j \in at : j < i}) = n - 1
  IN [n \in 1..Cardinality(at) |-> [header |-> HeaderAt(nth(n)), args |-> statements[nth(n)].args]]

RunAsProgram(script) ==
  op \in LaunchOps /\ args.entry = "program" /\ args.script = script

\* main() was called and every run it lists has been issued, in order.
EveryLaunchIssued(script) ==
  /\ RunAsProgram(script)
  /\ locals.main_called
  /\ locals.calls = Runs(Statements(script, args.argv))

\* C15: running any of train/cifar10.py, train/cifar100.py, train/cifarN.py,
\* train/clothing1m.py or train/webvision.py as a program calls its main()
\* and eventually issues every launch listed in the file, in the listed
\* order.
C15_EveryLaunchIssued ==
  \A script \in TrainScripts : [](RunAsProgram(script) => <>EveryLaunchIssued(script))

Banner(title) == "============= " \o title \o " =============="

Lower(kind) == IF kind = "SYM" THEN "sym" ELSE "asym"

\* The run r of main_train.py, a dictionary of globals, has the corruption type.
HasCorruptionType(r, type) ==
  "--corruption_type" \in DOMAIN r.args /\ r.args["--corruption_type"] = type

\* The run r of main_train.py is a run with noise kind 'sym' or 'asym' of
\* severity k / 100 whose output directory ends in sym<k> or asym<k>.
IsNoiseRun(r, kind, k) ==
  /\ HasCorruptionType(r, Lower(kind))
  /\ "--severity" \in DOMAIN r.args /\ r.args["--severity"] = k
  /\ \E dataset \in {"cifar10", "cifar100"} :
       r.args["--output_dir"] = "./out/" \o dataset \o "/" \o Lower(kind) \o ToString(k)

\* The same for a run of a script of train/, a list of arguments.
IsListedNoiseRun(r, kind, k, OUT_DIR) ==
  /\ \E i \in DOMAIN r.args : r.args[i] = "--corruption_type " \o Lower(kind)
  /\ \E i \in DOMAIN r.args : r.args[i] = "--severity 0." \o ToString(k \div 10)
  /\ \E i \in DOMAIN r.args, dataset \in {"cifar10", "cifar100"} :
       r.args[i] = "--output_dir=" \o OUT_DIR \o "/" \o dataset \o "/" \o Lower(kind) \o ToString(k)

\* C16: in main_train.py every run under a header 'SYM k' or 'ASYM k' (k in
\* 20, 40, 60) has corruption_type 'sym' or 'asym', severity k / 100 and an
\* output directory ending in sym<k> or asym<k>; the run under '10N WORST'
\* has corruption_type 'worst' and the one under '10N AGGREGATE' has
\* 'aggre', as the runs of train/cifar10.py, train/cifar100.py and
\* train/cifarN.py have.
C16_RunsMatchTheirHeaders ==
  /\ (op \in LaunchOps /\ args.script = "main_train.py") =>
       \A i \in DOMAIN locals.calls :
         LET r == locals.calls[i]
         IN /\ \A kind \in {"SYM", "ASYM"}, k \in {20, 40, 60} :
                 r.header = Banner(kind \o " " \o ToString(k)) => IsNoiseRun(r, kind, k)
            /\ r.header = Banner("10N WORST") => HasCorruptionType(r, "worst")
            /\ r.header = Banner("10N AGGREGATE") => HasCorruptionType(r, "aggre")
  /\ (op \in LaunchOps /\ args.script \in {"train/cifar10.py", "train/cifar100.py", "train/cifarN.py"}) =>
       LET listed == Runs(Statements(args.script, args.argv))
       IN \A i \in DOMAIN listed :
            LET r == listed[i]
            IN /\ \A kind \in {"SYM", "ASYM"}, k \in {20, 40, 60} :
                    r.header = Banner(kind \o " " \o ToString(k)) =>
                      IsListedNoiseRun(r, kind, k, args.argv[2])
               /\ r.header = Banner("10N WORST") =>
                    \E j \in DOMAIN r.args : r.args[j] = "--corruption_type worst"
               /\ r.header = Banner("10N AGGREGATE") =>
                    \E j \in DOMAIN r.args : r.args[j] = "--corruption_type aggre"
====
